---- MODULE Spec2Model ----
(***************************************************************************)
(* Model of the domain-routing and task-polling core of sda-mcp:           *)
(*   - the task monitor of src/agents/task/tools.py                        *)
(*     (get_task_by_id, check_task_status, wait_for_task_completion);      *)
(*   - the query classifier and the router of src/agents/router.py         *)
(*     (classify_query, load_domain_agent, route_* tools,                  *)
(*     intelligent_route).                                                 *)
(* The specifications share the variables:                                 *)
(*   Spec / FairSpec   one wait_for_task_completion call against a remote  *)
(*                     task record that follows its lifecycle;             *)
(*   InstantSpec       the same call when fetches take no time;            *)
(*   ClassifierSpec    classify_query applied to bounded queries;          *)
(*   RouterSpec        sequences of router tool calls;                     *)
(*   ExtractSpec       extract_task_id_from_response on bounded responses; *)
(*   ToolsSpec         the task tools and the execute-and-wait wrapper;    *)
(*   RequestSpec       CatalystCenterClient.request and its token;         *)
(*   RunToolsSpec      run_tools of the authentication group on bounded    *)
(*                     queries;                                            *)
(*   SessionSpec       router and task tool calls in flight together,      *)
(*                     sharing client_manager and the router's cache.      *)
(* Strings the code searches (queries, keywords) are sequences of          *)
(* one-character strings, so that substring and word-boundary tests are    *)
(* computed, not assumed.                                                  *)
(***************************************************************************)
EXTENDS Integers, Sequences, FiniteSets, TLC

VARIABLES
    \* ---- client_manager (src/client.py) ----
    client,                 \* ClientManager._client: NoClient or a client handle
    \* ---- the remote task record and the wall clock (environment) ----
    remote,                 \* the task record held by Catalyst Center
    now,                    \* time.time(), in whole seconds
    \* ---- one wait_for_task_completion call ----
    pc,                     \* position of the coroutine
    max_wait_seconds,       \* argument
    check_interval_seconds, \* argument
    start_wait_time,        \* local, line 270
    max_wait_time,          \* local, line 271
    task,                   \* local, line 279: last record the loop read
    elapsed_time,           \* local, line 285 / 293
    result,                 \* the returned string, as a record
    \* ---- history of the call (observation only) ----
    fetches,                \* get_task_by_id requests issued by the call
    loopFetches,            \* those issued by the loop itself (line 274)
    sleeps,                 \* asyncio.sleep calls taken (line 290)
    task_response,          \* the reply the call's last get_task_by_id got
    timeAtCheck,            \* clock value read by the last loop test (line 273)
    \* ---- classify_query ----
    query,                  \* the query string, a sequence of characters
    domain,                 \* the value classify_query returned
    \* ---- router ----
    domain_agents,          \* the cache of line 11: domain name -> handle
    loads,                  \* domain name -> number of successful imports
    calls,                  \* router tool calls made so far
    lastCall,               \* what the last router tool call did
    \* ---- extract_task_id_from_response ----
    response,               \* the argument: an operation's JSON result
    task_id,                \* how the call ended: the value returned or the error raised
    \* ---- the task tools as the caller sees them ----
    calledTool,             \* the task tool the caller invoked
    tasks_response,         \* what get_tasks returned
    taskListRequests,       \* GET .../tasks requests issued
    \* ---- one execute_and_monitor_task call ----
    execPc,                 \* position of the coroutine
    auto_wait,              \* argument
    execResult,             \* the returned string, as a record
    operationRuns,          \* times operation_func was run
    raisedIn,               \* where an exception was raised inside the try block
    \* ---- a CatalystCenterClient and one request call on it ----
    token,                  \* self.token
    issued,                 \* tokens the server has issued to the client
    requestPc,              \* position of the coroutine
    requests,               \* request calls made on the client
    sends,                  \* HTTP requests the call has sent (line 61)
    reauthentications,      \* authenticate() calls the call made after a 401 (line 66)
    sentToken,              \* X-Auth-Token of the last HTTP request
    returned,               \* the value the call returned
    \* ---- tool calls in flight and the clients connect constructs ----
    invocations,            \* the coroutines of the tool calls, by slot
    created,                \* CatalystCenterClient objects constructed by connect
    clientTokens            \* the token attribute of each such object

taskVars == <<client, remote, now, pc, max_wait_seconds, check_interval_seconds,
              start_wait_time, max_wait_time, task, elapsed_time, result,
              fetches, loopFetches, sleeps, task_response, timeAtCheck>>
classifierVars == <<query, domain>>
routerVars == <<domain_agents, loads, calls, lastCall>>
extractVars == <<response, task_id>>
toolVars == <<calledTool, tasks_response, taskListRequests>>
execVars == <<execPc, auto_wait, execResult, operationRuns, raisedIn>>
requestVars == <<token, issued, requestPc, requests, sends, reauthentications,
                 sentToken, returned>>
sessionVars == <<invocations, created, clientTokens>>
vars == <<taskVars, classifierVars, routerVars, extractVars, toolVars, execVars,
          requestVars, sessionVars>>

\* ------------------------------------------------------------------------
\* Bounds of the model
\* ------------------------------------------------------------------------
MaxWait == 3            \* largest max_wait_seconds tried
MaxInterval == 2        \* largest check_interval_seconds tried
MaxFetchDelay == 1      \* longest Transport round trip, in seconds
MaxJitter == 2          \* longest oversleep of asyncio.sleep, in seconds
MaxSpins == 2           \* most zero-length sleeps within one clock second

\* ------------------------------------------------------------------------
\* Values
\* ------------------------------------------------------------------------
NoClient == "None"
Clients == {"client1"}

\* endTime value of a finished task (epoch milliseconds, any value > 0)
EndStamp == 1000

\* A task record: the two fields the monitor reads, each possibly absent.
\* An absent field holds the default that dict.get falls back to.
TaskRecord(hasErr, err, hasEnd, end) ==
    [hasIsError |-> hasErr, isError |-> err, hasEndTime |-> hasEnd, endTime |-> end]
NoTask == [none |-> TRUE]

\* Records a freshly created (not yet ended, not failed) task can show.
FreshRecords == { TaskRecord(FALSE, FALSE, FALSE, 0), TaskRecord(TRUE, FALSE, TRUE, 0) }

\* task.get("isError", False) and task.get("endTime", 0)
GetIsError(t) == IF t.hasIsError THEN t.isError ELSE FALSE
GetEndTime(t) == IF t.hasEndTime THEN t.endTime ELSE 0

\* Replies of get_task_by_id: None, a dict without "response" (empty, hence
\* falsy, or not), or a dict with the task record under "response".
NoneReply == [truthy |-> FALSE, hasResponse |-> FALSE, response |-> NoTask]
EmptyDictReply == [truthy |-> FALSE, hasResponse |-> FALSE, response |-> NoTask, dict |-> TRUE]
ErrorDictReply == [truthy |-> TRUE, hasResponse |-> FALSE, response |-> NoTask]
OkReply(t) == [truthy |-> TRUE, hasResponse |-> TRUE, response |-> t]

\* {"error": "Not connected. Use connect() first."}
NotConnectedReply ==
    [truthy |-> TRUE, hasResponse |-> FALSE, response |-> NoTask,
     error |-> "Not connected. Use connect() first."]

\* What Transport (client.request) can hand back for GET .../task/<id>.
TransportReplies(t) == {NoneReply, EmptyDictReply, ErrorDictReply, OkReply(t)}

\* Returned strings, by their fixed part: head is the fixed text, status the
\* "Status:" line of a task summary, and wait (when the string ends with a
\* "Wait Time" or "waited" figure) the elapsed seconds it reports.
NoResult == [head |-> "(no result yet)", status |-> "-"]
NotConnectedMsg == [head |-> "Error: Not connected. Use connect() first.", status |-> "-"]
CouldNotRetrieveMsg == [head |-> "Error: Could not retrieve task", status |-> "-"]
SummaryMsg(st) == [head |-> "Task Status Summary", status |-> st]
TimeoutMsg(waited) == [head |-> "Timeout: Task did not complete", status |-> "-", wait |-> waited]
WithWaitTime(summary, waited) == [head |-> summary.head, status |-> summary.status, wait |-> waited]

\* ------------------------------------------------------------------------
\* Task tools (src/agents/task/tools.py)
\* ------------------------------------------------------------------------

\* Mutant of get_task_by_id: the client check is missing.
get_task_by_idUnchecked(cl, reply) == reply

\* get_task_by_id: the not-connected error object, else Transport's reply.
get_task_by_id(cl, reply) == IF cl = NoClient THEN NotConnectedReply ELSE reply

\* "not task_response or 'response' not in task_response"
FetchFailed(resp) == (~resp.truthy) \/ (~resp.hasResponse)

\* Mutant of TaskStatus: endTime is looked at before isError.
TaskStatusEndTimeFirst(t) ==
    IF GetEndTime(t) > 0 THEN "COMPLETED"
    ELSE IF GetIsError(t) THEN "FAILED"
    ELSE "IN PROGRESS"

\* The status check_task_status derives from a record (lines 212-217).
TaskStatus(t) ==
    IF GetIsError(t) THEN "FAILED"
    ELSE IF GetEndTime(t) > 0 THEN "COMPLETED"
    ELSE "IN PROGRESS"

\* check_task_status, given the reply its own fetch received.
check_task_status(cl, resp) ==
    IF cl = NoClient THEN NotConnectedMsg
    ELSE IF FetchFailed(resp) THEN CouldNotRetrieveMsg
    ELSE SummaryMsg(TaskStatus(resp["response"]))

\* "is_error or end_time > 0" (line 284)
IsComplete(t) == GetIsError(t) \/ GetEndTime(t) > 0

\* Mutant of LoopVerdict: a failed fetch is retried after the sleep.
LoopVerdictRetriesLookup(got) ==
    IF FetchFailed(got) THEN "sleep"
    ELSE IF IsComplete(got["response"]) THEN "complete"
    ELSE "sleep"

\* What the loop body does with a reply (lines 276-290): give up with the
\* lookup error, go on to the summary, or sleep and poll again.
LoopVerdict(got) ==
    IF FetchFailed(got) THEN "lookup_error"
    ELSE IF IsComplete(got["response"]) THEN "complete"
    ELSE "sleep"

\* Mutant of KeepPolling: the loop has no deadline.
KeepPollingForever(t, deadline) == TRUE

\* Mutant of KeepPolling: the loop gives up one second early.
KeepPollingOneShort(t, deadline) == t + 1 < deadline

\* Mutant of KeepPolling: the loop is entered when the deadline is reached.
KeepPollingAtDeadline(t, deadline) == t <= deadline

\* "while time.time() < max_wait_time" (line 273)
KeepPolling(t, deadline) == t < deadline

\* Mutant of SleepDuration: the loop does not sleep between polls.
SleepDurationNone(delay) == 0

\* asyncio.sleep(delay): a delay <= 0 only yields to the event loop.
SleepDuration(delay) == IF delay > 0 THEN delay ELSE 0

\* The clock is followed up to this horizon; no call of the code gets there.
ClockHorizon == MaxWait + MaxInterval + MaxJitter + 2 * MaxFetchDelay + 1

WaitArgs == (0 - 1) .. MaxWait
IntervalArgs == (0 - 1) .. MaxInterval

\* ---- environment: the remote task record follows its lifecycle ----------
RemoteFinish ==
    /\ GetEndTime(remote) = 0
    /\ remote' = [remote EXCEPT !.hasEndTime = TRUE, !.endTime = EndStamp]
    /\ UNCHANGED <<client, now, pc, max_wait_seconds, check_interval_seconds,
                   start_wait_time, max_wait_time, task, elapsed_time, result,
                   fetches, loopFetches, sleeps, task_response, timeAtCheck>>
    /\ UNCHANGED <<classifierVars, routerVars, extractVars, toolVars, execVars, requestVars, sessionVars>>

RemoteFail ==
    /\ ~GetIsError(remote)
    /\ remote' = [remote EXCEPT !.hasIsError = TRUE, !.isError = TRUE]
    /\ UNCHANGED <<client, now, pc, max_wait_seconds, check_interval_seconds,
                   start_wait_time, max_wait_time, task, elapsed_time, result,
                   fetches, loopFetches, sleeps, task_response, timeAtCheck>>
    /\ UNCHANGED <<classifierVars, routerVars, extractVars, toolVars, execVars, requestVars, sessionVars>>

\* ---- connect (src/agents/authentication/tools.py, lines 29-36) ----------
Connect ==
    /\ \E c \in Clients, authenticated \in BOOLEAN :
          client' = IF authenticated THEN c ELSE client
    /\ client' # client
    /\ UNCHANGED <<remote, now, pc, max_wait_seconds, check_interval_seconds,
                   start_wait_time, max_wait_time, task, elapsed_time, result,
                   fetches, loopFetches, sleeps, task_response, timeAtCheck>>
    /\ UNCHANGED <<classifierVars, routerVars, extractVars, toolVars, execVars, requestVars, sessionVars>>

\* ---- wait_for_task_completion (lines 252-294) ---------------------------
NoTool == "(none)"

\* Entry of a call with arguments mw and ci: the client check, then
\* lines 270-271.
StartWait(mw, ci) ==
    /\ max_wait_seconds' = mw
    /\ check_interval_seconds' = ci
    /\ IF client = NoClient
       THEN /\ result' = NotConnectedMsg
            /\ pc' = "done"
            /\ UNCHANGED <<start_wait_time, max_wait_time>>
       ELSE /\ start_wait_time' = now
            /\ max_wait_time' = now + mw
            /\ pc' = "loop"
            /\ UNCHANGED result
    /\ UNCHANGED <<client, remote, now, task, elapsed_time,
                   fetches, loopFetches, sleeps, task_response, timeAtCheck>>

\* The caller invokes wait_for_task_completion.
WaitCall ==
    /\ pc = "idle"
    /\ calledTool = NoTool
    /\ calledTool' = "wait_for_task_completion"
    /\ \E mw \in WaitArgs, ci \in IntervalArgs : StartWait(mw, ci)
    /\ UNCHANGED <<tasks_response, taskListRequests>>
    /\ UNCHANGED <<classifierVars, routerVars, extractVars, execVars, requestVars, sessionVars>>

\* The loop test of line 273 and, when it fails, lines 293-294.
LoopTest ==
    /\ pc = "loop"
    /\ timeAtCheck' = now
    /\ IF KeepPolling(now, max_wait_time)
       THEN /\ pc' = "fetch"
            /\ UNCHANGED <<elapsed_time, result>>
       ELSE /\ elapsed_time' = now - start_wait_time
            /\ result' = TimeoutMsg(now - start_wait_time)
            /\ pc' = "done"
    /\ UNCHANGED <<client, remote, now, max_wait_seconds, check_interval_seconds,
                   start_wait_time, max_wait_time, task,
                   fetches, loopFetches, sleeps, task_response>>
    /\ UNCHANGED <<classifierVars, routerVars, extractVars, toolVars, execVars, requestVars, sessionVars>>

\* Lines 274-290: the fetch of the loop and what the loop does with the reply.
Fetch ==
    /\ pc = "fetch"
    /\ \E d \in 0 .. MaxFetchDelay, reply \in TransportReplies(remote) :
          LET got == get_task_by_id(client, reply)
              verdict == LoopVerdict(got) IN
          /\ now' = now + d
          /\ task_response' = got
          /\ task' = IF got.hasResponse THEN got["response"] ELSE task
          /\ CASE verdict = "lookup_error" ->
                    /\ result' = CouldNotRetrieveMsg
                    /\ pc' = "done"
                    /\ UNCHANGED elapsed_time
               [] verdict = "complete" ->
                    /\ elapsed_time' = (now + d) - start_wait_time
                    /\ pc' = "summary"
                    /\ UNCHANGED result
               [] verdict = "sleep" ->
                    /\ pc' = "sleep"
                    /\ UNCHANGED <<elapsed_time, result>>
    /\ fetches' = fetches + 1
    /\ loopFetches' = loopFetches + 1
    /\ UNCHANGED <<client, remote, max_wait_seconds, check_interval_seconds,
                   start_wait_time, max_wait_time, sleeps, timeAtCheck>>
    /\ UNCHANGED <<classifierVars, routerVars, extractVars, toolVars, execVars, requestVars, sessionVars>>

\* Lines 286-287: check_task_status fetches the record again (line 194) and
\* the call returns its summary with the wait time appended.
Summary ==
    /\ pc = "summary"
    /\ IF client = NoClient
       THEN /\ result' = WithWaitTime(NotConnectedMsg, elapsed_time)
            /\ UNCHANGED <<now, task_response, fetches>>
       ELSE \E d \in 0 .. MaxFetchDelay, reply \in TransportReplies(remote) :
               LET got == get_task_by_id(client, reply) IN
               /\ now' = now + d
               /\ task_response' = got
               /\ fetches' = fetches + 1
               /\ result' = WithWaitTime(check_task_status(client, got), elapsed_time)
    /\ pc' = "done"
    /\ UNCHANGED <<client, remote, max_wait_seconds, check_interval_seconds,
                   start_wait_time, max_wait_time, task, elapsed_time,
                   loopFetches, sleeps, timeAtCheck>>
    /\ UNCHANGED <<classifierVars, routerVars, extractVars, toolVars, execVars, requestVars, sessionVars>>

\* Line 290: asyncio.sleep(check_interval_seconds), then back to the loop test.
\* A sleep lasts at least its delay; one that takes no measurable time can
\* repeat at most MaxSpins times within one clock second.
Sleep ==
    /\ pc = "sleep"
    /\ now <= ClockHorizon
    /\ \E j \in 0 .. MaxJitter :
          /\ now' = now + SleepDuration(check_interval_seconds) + j
          /\ (now' > now) \/ (sleeps < MaxSpins)
    /\ sleeps' = sleeps + 1
    /\ pc' = "loop"
    /\ UNCHANGED <<client, remote, max_wait_seconds, check_interval_seconds,
                   start_wait_time, max_wait_time, task, elapsed_time, result,
                   fetches, loopFetches, task_response, timeAtCheck>>
    /\ UNCHANGED <<classifierVars, routerVars, extractVars, toolVars, execVars, requestVars, sessionVars>>

WaitStep == WaitCall \/ LoopTest \/ Fetch \/ Summary \/ Sleep

\* ========================================================================
\* Strings as sequences of characters
\* ========================================================================
UpperLetters == <<"A","B","C","D","E","F","G","H","I","J","K","L","M",
                  "N","O","P","Q","R","S","T","U","V","W","X","Y","Z">>
LowerLetters == <<"a","b","c","d","e","f","g","h","i","j","k","l","m",
                  "n","o","p","q","r","s","t","u","v","w","x","y","z">>
Digits == {"0","1","2","3","4","5","6","7","8","9"}

Range(f) == { f[i] : i \in DOMAIN f }

\* str.lower(), on the characters the model uses
LowerChar(c) ==
    IF c \in Range(UpperLetters)
    THEN LowerLetters[CHOOSE i \in DOMAIN UpperLetters : UpperLetters[i] = c]
    ELSE c
lower(s) == [i \in 1 .. Len(s) |-> LowerChar(s[i])]

\* the characters the regular expression class \w matches
IsWordChar(c) == c \in Range(UpperLetters) \cup Range(LowerLetters) \cup Digits \cup {"_"}

\* sub occurs in s, starting at position i
OccursAt(sub, s, i) ==
    /\ i >= 1
    /\ i + Len(sub) - 1 <= Len(s)
    /\ \A j \in 1 .. Len(sub) : s[i + j - 1] = sub[j]

\* "sub in s"
Contains(sub, s) == \E i \in 1 .. (Len(s) - Len(sub) + 1) : OccursAt(sub, s, i)

\* The regular expression assertion \b at the gap before position p of s:
\* exactly one of the two neighbours is a word character.
WordBoundary(s, p) ==
    (p > 1 /\ IsWordChar(s[p - 1])) # (p <= Len(s) /\ IsWordChar(s[p]))

\* re.search(r'\b' + re.escape(keyword) + r'\b', s)
WholeWordMatch(keyword, s) ==
    \E i \in 1 .. (Len(s) - Len(keyword) + 1) :
        /\ OccursAt(keyword, s, i)
        /\ WordBoundary(s, i)
        /\ WordBoundary(s, i + Len(keyword))

\* ========================================================================
\* The classifier (src/agents/router.py, lines 13-65)
\* ========================================================================

\* DOMAIN_KEYWORDS, in the order of the dict literal
DOMAIN_KEYWORDS == <<
    [domain |-> "authentication", keywords |-> <<
        <<"a","u","t","h">>,
        <<"a","u","t","h","e","n","t","i","c","a","t","i","o","n">>,
        <<"l","o","g","i","n">>,
        <<"t","o","k","e","n">>,
        <<"c","r","e","d","e","n","t","i","a","l">>,
        <<"u","s","e","r">>,
        <<"p","a","s","s","w","o","r","d">>,
        <<"c","e","r","t","i","f","i","c","a","t","e">>,
        <<"c","o","n","n","e","c","t">>,
        <<"c","o","n","n","e","c","t","i","o","n">> >>],
    [domain |-> "appliance", keywords |-> <<
        <<"i","m","c">>,
        <<"a","p","p","l","i","a","n","c","e">>,
        <<"c","i","s","c","o"," ","i","m","c">>,
        <<"h","a","r","d","w","a","r","e">>,
        <<"s","e","r","v","e","r">> >>],
    [domain |-> "system", keywords |-> <<
        <<"b","a","c","k","u","p">>,
        <<"r","e","s","t","o","r","e">>,
        <<"h","e","a","l","t","h">>,
        <<"p","e","r","f","o","r","m","a","n","c","e">>,
        <<"p","l","a","t","f","o","r","m">>,
        <<"l","i","c","e","n","s","e">>,
        <<"c","e","r","t","i","f","i","c","a","t","e">>,
        <<"u","s","e","r">>,
        <<"r","o","l","e">>,
        <<"d","i","s","a","s","t","e","r"," ","r","e","c","o","v","e","r","y">> >>],
    [domain |-> "connectivity", keywords |-> <<
        <<"f","a","b","r","i","c">>,
        <<"w","i","r","e","l","e","s","s">>,
        <<"w","i","r","e","d">>,
        <<"s","d","a">>,
        <<"s","d","-","a","c","c","e","s","s">>,
        <<"c","o","n","n","e","c","t","i","v","i","t","y">> >>],
    [domain |-> "ecosystem", keywords |-> <<
        <<"i","t","s","m">>,
        <<"i","n","t","e","g","r","a","t","i","o","n">>,
        <<"e","c","o","s","y","s","t","e","m">> >>],
    [domain |-> "events", keywords |-> <<
        <<"e","v","e","n","t">>,
        <<"e","v","e","n","t","s">>,
        <<"n","o","t","i","f","i","c","a","t","i","o","n">>,
        <<"a","l","e","r","t">> >>],
    [domain |-> "network_inventory", keywords |-> <<
        <<"d","e","v","i","c","e">>,
        <<"i","n","v","e","n","t","o","r","y">>,
        <<"c","l","i","e","n","t">>,
        <<"a","p","p","l","i","c","a","t","i","o","n">>,
        <<"c","o","m","p","l","i","a","n","c","e">>,
        <<"e","o","x">>,
        <<"s","e","n","s","o","r">>,
        <<"s","i","t","e">>,
        <<"t","o","p","o","l","o","g","y">>,
        <<"s","e","c","u","r","i","t","y">>,
        <<"a","d","v","i","s","o","r","y">> >>],
    [domain |-> "operational_tasks", keywords |-> <<
        <<"c","o","m","m","a","n","d">>,
        <<"d","i","s","c","o","v","e","r","y">>,
        <<"f","i","l","e">>,
        <<"p","a","t","h">>,
        <<"t","r","a","c","e">>,
        <<"r","e","p","o","r","t">>,
        <<"t","a","g">>,
        <<"t","a","s","k">>,
        <<"o","p","e","r","a","t","i","o","n">> >>],
    [domain |-> "policy", keywords |-> <<
        <<"p","o","l","i","c","y">>,
        <<"e","n","d","p","o","i","n","t">>,
        <<"a","n","a","l","y","t","i","c","s">>,
        <<"a","p","p","l","i","c","a","t","i","o","n"," ","p","o","l","i","c","y">> >>],
    [domain |-> "site_management", keywords |-> <<
        <<"c","o","n","f","i","g","u","r","a","t","i","o","n">>,
        <<"t","e","m","p","l","a","t","e">>,
        <<"o","n","b","o","a","r","d","i","n","g">>,
        <<"p","n","p">>,
        <<"r","e","p","l","a","c","e","m","e","n","t">>,
        <<"a","u","t","o","m","a","t","i","o","n">>,
        <<"l","a","n"," ","a","u","t","o","m","a","t","i","o","n">>,
        <<"n","e","t","w","o","r","k"," ","s","e","t","t","i","n","g","s">>,
        <<"s","i","t","e"," ","d","e","s","i","g","n">>,
        <<"s","w","i","m">>,
        <<"s","o","f","t","w","a","r","e"," ","i","m","a","g","e">> >>],
    [domain |-> "system_settings", keywords |-> <<
        <<"s","e","t","t","i","n","g">>,
        <<"s","e","t","t","i","n","g","s">>,
        <<"c","o","n","f","i","g","u","r","a","t","i","o","n">>,
        <<"s","y","s","t","e","m"," ","c","o","n","f","i","g">> >>],
    [domain |-> "assurance", keywords |-> <<
        <<"a","s","s","u","r","a","n","c","e">>,
        <<"m","o","n","i","t","o","r","i","n","g">>,
        <<"a","n","a","l","y","t","i","c","s">>,
        <<"h","e","a","l","t","h">>,
        <<"p","e","r","f","o","r","m","a","n","c","e">>,
        <<"i","s","s","u","e">>,
        <<"p","r","o","b","l","e","m">> >>] >>

\* the terms of the "authentication" override
AuthenticationTerms == <<
    <<"c","o","n","n","e","c","t">>,
    <<"l","o","g","i","n">>,
    <<"a","u","t","h">>,
    <<"a","u","t","h","e","n","t","i","c","a","t","e">> >>

\* the terms of the "sda" override
SdaTerms == <<
    <<"f","a","b","r","i","c">>,
    <<"s","d","a">>,
    <<"s","d","-","a","c","c","e","s","s">>,
    <<"v","i","r","t","u","a","l"," ","n","e","t","w","o","r","k">>,
    <<"s","i","t","e"," ","p","r","o","v","i","s","i","o","n">> >>

\* the terms of the "devices" override
DevicesTerms == <<
    <<"d","e","v","i","c","e">>,
    <<"i","n","v","e","n","t","o","r","y">>,
    <<"n","e","t","w","o","r","k"," ","d","e","v","i","c","e">>,
    <<"s","w","i","t","c","h">>,
    <<"r","o","u","t","e","r">> >>

\* the terms of the "task" override
TaskTerms == <<
    <<"t","a","s","k">>,
    <<"j","o","b">>,
    <<"s","t","a","t","u","s">>,
    <<"o","p","e","r","a","t","i","o","n">> >>

\* domain_mapping of load_domain_agent (lines 74-90)
domain_mapping ==
    ("authentication" :> "authentication") @@
    ("appliance" :> "devices") @@
    ("system" :> "devices") @@
    ("connectivity" :> "sda") @@
    ("ecosystem" :> "task") @@
    ("events" :> "task") @@
    ("network_inventory" :> "devices") @@
    ("operational_tasks" :> "task") @@
    ("policy" :> "sda") @@
    ("site_management" :> "devices") @@
    ("system_settings" :> "devices") @@
    ("assurance" :> "devices") @@
    ("sda" :> "sda") @@
    ("devices" :> "devices") @@
    ("task" :> "task")

\* the keys of domain_mapping: the domain-to-group table
DomainNames == DOMAIN domain_mapping

\* Mutant of KeywordScore: a whole-word match counts like a bare substring.
KeywordScoreFlat(keyword, query_lower) ==
    IF Contains(keyword, query_lower) THEN 1 ELSE 0

\* Lines 41-47: what one keyword adds to its domain's score.
KeywordScore(keyword, query_lower) ==
    IF Contains(keyword, query_lower)
    THEN (IF WholeWordMatch(keyword, query_lower) THEN 2 ELSE 1)
    ELSE 0

\* Lines 40-48: the score of one domain, summed over its keywords in order.
RECURSIVE ScoreFrom(_, _, _)
ScoreFrom(keywords, query_lower, i) ==
    IF i > Len(keywords) THEN 0
    ELSE KeywordScore(keywords[i], query_lower) + ScoreFrom(keywords, query_lower, i + 1)

\* Lines 37-48: domain_scores, indexed like DOMAIN_KEYWORDS.
domain_scores(query_lower) ==
    [i \in 1 .. Len(DOMAIN_KEYWORDS) |->
        ScoreFrom(DOMAIN_KEYWORDS[i].keywords, query_lower, 1)]

\* any(term in query_lower for term in terms)
AnyTermIn(terms, query_lower) ==
    \E i \in 1 .. Len(terms) : Contains(terms[i], query_lower)

NoOverride == "(no override)"

\* Mutant of OverrideDomain: the device rule is tested before the
\* authentication rule.
OverrideDomainDevicesFirst(query_lower) ==
    IF AnyTermIn(DevicesTerms, query_lower) THEN "devices"
    ELSE IF AnyTermIn(AuthenticationTerms, query_lower) THEN "authentication"
    ELSE IF AnyTermIn(SdaTerms, query_lower) THEN "sda"
    ELSE IF AnyTermIn(TaskTerms, query_lower) THEN "task"
    ELSE NoOverride

\* Mutant of OverrideDomain: the device rule is tested before the fabric/SDA
\* rule.
OverrideDomainDevicesBeforeSda(query_lower) ==
    IF AnyTermIn(AuthenticationTerms, query_lower) THEN "authentication"
    ELSE IF AnyTermIn(DevicesTerms, query_lower) THEN "devices"
    ELSE IF AnyTermIn(SdaTerms, query_lower) THEN "sda"
    ELSE IF AnyTermIn(TaskTerms, query_lower) THEN "task"
    ELSE NoOverride

\* Lines 50-57: the if/elif chain of special routing rules.
OverrideDomain(query_lower) ==
    IF AnyTermIn(AuthenticationTerms, query_lower) THEN "authentication"
    ELSE IF AnyTermIn(SdaTerms, query_lower) THEN "sda"
    ELSE IF AnyTermIn(DevicesTerms, query_lower) THEN "devices"
    ELSE IF AnyTermIn(TaskTerms, query_lower) THEN "task"
    ELSE NoOverride

\* Mutant of BestIndex: among equal scores the last item wins.
BestIndexLastWins(scores) ==
    CHOOSE i \in DOMAIN scores :
        /\ \A j \in DOMAIN scores : scores[j] <= scores[i]
        /\ \A j \in DOMAIN scores : j > i => scores[j] < scores[i]

\* max(domain_scores.items(), key=lambda x: x[1]): the first item, in dict
\* order, whose score no other item exceeds.
BestIndex(scores) ==
    CHOOSE i \in DOMAIN scores :
        /\ \A j \in DOMAIN scores : scores[j] <= scores[i]
        /\ \A j \in DOMAIN scores : j < i => scores[j] < scores[i]

\* Mutant of DefaultDomain: a fallback name that no table knows.
DefaultDomainUnknown == "general"

\* Line 65: the default fallback.
DefaultDomain == "sda"

\* Mutant of classify_query: the best score is not required to be positive.
classify_queryWithoutScoreTest(q) ==
    LET query_lower == lower(q)
        scores == domain_scores(query_lower)
        override == OverrideDomain(query_lower)
        best == BestIndex(scores)
    IN  IF override # NoOverride THEN override
        ELSE DOMAIN_KEYWORDS[best].domain

\* classify_query (lines 29-65)
classify_query(q) ==
    LET query_lower == lower(q)
        scores == domain_scores(query_lower)
        override == OverrideDomain(query_lower)
        best == BestIndex(scores)
    IN  IF override # NoOverride THEN override
        ELSE IF scores[best] > 0 THEN DOMAIN_KEYWORDS[best].domain
        ELSE DefaultDomain

\* ---- the queries the classifier is applied to ---------------------------
MaxQueryTokens == 2

\* Pieces a query is put together from, with nothing between them.
Vocabulary == {
    <<"c","o","n","n","e","c","t">>,
    <<"L","o","g","i","n">>,
    <<"L","O","G">>,
    <<"i","n">>,
    <<" ">>,
    <<"s","w","i","t","c","h">>,
    <<"i","n","v","e","n","t","o","r","y">>,
    <<"t","a","s","k">>,
    <<"s","d","a">>,
    <<"b","a","c","k","u","p">>,
    <<"h","e","a","l","t","h">>,
    <<"r","e">>,
    <<"x">> }

RECURSIVE Concat(_)
Concat(pieces) ==
    IF pieces = <<>> THEN <<>> ELSE Head(pieces) \o Concat(Tail(pieces))

Queries ==
    { Concat(ps) : ps \in UNION { [1 .. n -> Vocabulary] : n \in 0 .. MaxQueryTokens } }

NotClassified == "(not classified)"

\* One call of classify_query on the query at hand.
Classify ==
    /\ domain = NotClassified
    /\ domain' = classify_query(query)
    /\ UNCHANGED query
    /\ UNCHANGED <<taskVars, routerVars, extractVars, toolVars, execVars, requestVars, sessionVars>>

\* ========================================================================
\* The router (src/agents/router.py, lines 68-319)
\* ========================================================================

\* The handle of a loaded group is named after its module; None is no handle.
NoHandle == "None"
Modules == { domain_mapping[d] : d \in DomainNames }

\* Groups whose agent object carries run_tools / process_request
\* (agent.run_tools = ..., agent.process_request = ... at the end of each
\* agents/<module>/tools.py; agents/task/tools.py attaches neither).
RunToolsGroups == {"authentication"}
ProcessRequestGroups == {"authentication", "devices", "sda"}

\* hasattr(agent, 'run_tools')
HasRunTools(agent) == agent \in RunToolsGroups

\* How importlib.import_module / getattr can end (lines 95-100): the module's
\* agent, an exception the except clause catches, or any other exception.
ImportOutcomes == {"ok", "ImportError", "AttributeError", "OtherException"}
CaughtFailures == {"ImportError", "AttributeError"}
NoImport == "(no import)"

\* domain_mapping.get(domain_name, domain_name) (line 92)
ActualModule(domain_name) ==
    IF domain_name \in DOMAIN domain_mapping THEN domain_mapping[domain_name] ELSE domain_name

\* Mutant of CacheHit: the cache is never consulted.
CacheHitNever(cache, domain_name) == FALSE

\* "if domain_name in domain_agents" (line 70)
CacheHit(cache, domain_name) == domain_name \in DOMAIN cache

\* Mutant of CacheAfterImport: a failed import is remembered as None.
CacheAfterImportMemoFailure(cache, domain_name, outcome) ==
    IF outcome = "ok"
    THEN (domain_name :> ActualModule(domain_name)) @@ cache
    ELSE (domain_name :> NoHandle) @@ cache

\* Mutant of CacheAfterImport: a loaded group takes the place of the whole
\* cache.
CacheAfterImportForgetful(cache, domain_name, outcome) ==
    IF outcome = "ok"
    THEN (domain_name :> ActualModule(domain_name))
    ELSE cache

\* The cache after an import attempt for domain_name (lines 95-102).
CacheAfterImport(cache, domain_name, outcome) ==
    IF outcome = "ok"
    THEN (domain_name :> ActualModule(domain_name)) @@ cache
    ELSE cache

\* load_domain_agent (lines 68-102), given how an import would end:
\* the handle returned (or NoHandle), the cache afterwards, whether an import
\* was attempted and how it ended, and whether an exception escapes.
load_domain_agent(cache, domain_name, outcome) ==
    IF CacheHit(cache, domain_name)
    THEN [agent |-> cache[domain_name], cache |-> cache,
          imported |-> NoImport, raised |-> FALSE]
    ELSE [agent |-> IF outcome = "ok" THEN ActualModule(domain_name) ELSE NoHandle,
          cache |-> CacheAfterImport(cache, domain_name, outcome),
          imported |-> outcome,
          raised |-> outcome \notin (CaughtFailures \cup {"ok"})]

\* The route tools that load a group themselves: the domain name each passes
\* to load_domain_agent and the name its error string uses.
RouteTable ==
    ("route_authentication_requests" :> [domain_name |-> "authentication", label |-> "authentication"]) @@
    ("route_appliance_requests" :> [domain_name |-> "appliance", label |-> "appliance"]) @@
    ("route_system_requests" :> [domain_name |-> "system", label |-> "system"]) @@
    ("route_connectivity_requests" :> [domain_name |-> "connectivity", label |-> "connectivity"]) @@
    ("route_ecosystem_requests" :> [domain_name |-> "ecosystem", label |-> "ecosystem"]) @@
    ("route_event_requests" :> [domain_name |-> "events", label |-> "event management"]) @@
    ("route_network_inventory_requests" :> [domain_name |-> "network_inventory", label |-> "network inventory"]) @@
    ("route_operational_tasks_requests" :> [domain_name |-> "operational_tasks", label |-> "operational tasks"]) @@
    ("route_policy_requests" :> [domain_name |-> "policy", label |-> "policy"]) @@
    ("route_site_management_requests" :> [domain_name |-> "site_management", label |-> "site management"]) @@
    ("route_system_settings_requests" :> [domain_name |-> "system_settings", label |-> "system settings"]) @@
    ("route_assurance_requests" :> [domain_name |-> "assurance", label |-> "assurance"]) @@
    ("use_sda_tools" :> [domain_name |-> "sda", label |-> "sda"])

\* The legacy tools that only forward to a route tool (lines 263-286).
Forwarders ==
    ("use_device_inventory_tools" :> "route_network_inventory_requests") @@
    ("use_task_tools" :> "route_operational_tasks_requests")

\* domain_routing of intelligent_route (lines 300-316)
domain_routing ==
    ("authentication" :> "route_authentication_requests") @@
    ("appliance" :> "route_appliance_requests") @@
    ("system" :> "route_system_requests") @@
    ("connectivity" :> "route_connectivity_requests") @@
    ("ecosystem" :> "route_ecosystem_requests") @@
    ("events" :> "route_event_requests") @@
    ("network_inventory" :> "route_network_inventory_requests") @@
    ("operational_tasks" :> "route_operational_tasks_requests") @@
    ("policy" :> "route_policy_requests") @@
    ("site_management" :> "route_site_management_requests") @@
    ("system_settings" :> "route_system_settings_requests") @@
    ("assurance" :> "route_assurance_requests") @@
    ("sda" :> "route_connectivity_requests") @@
    ("devices" :> "route_network_inventory_requests") @@
    ("task" :> "route_operational_tasks_requests")

\* Mutant of RouteFunction: the table is not consulted, the fallback is taken.
RouteFunctionFallbackOnly(d) == "route_network_inventory_requests"

\* domain_routing.get(domain, route_network_inventory_requests) (line 318)
RouteFunction(d) ==
    IF d \in DOMAIN domain_routing THEN domain_routing[d]
    ELSE "route_network_inventory_requests"

\* The body shared by the route tools (e.g. lines 190-193): the value the
\* tool returns, either what the group's run_tools(query) returned or the
\* string "Error: Could not load the <label> agent."
Dispatch(agent, label, q) ==
    IF agent # NoHandle /\ HasRunTools(agent)
    THEN [via |-> "run_tools", group |-> agent, query |-> q]
    ELSE [via |-> "error", label |-> label]

\* ---- router calls --------------------------------------------------------
MaxCalls == 3

\* The queries handed to the router tools.
RouterQueries == {
    <<>>,
    <<"c","o","n","n","e","c","t">>,
    <<"s","w","i","t","c","h">>,
    <<"t","a","s","k">> }

\* classify_query on the router's queries
Classified == [q \in RouterQueries |-> classify_query(q)]

NoCall == [tool |-> "(none)", domain_name |-> "(none)", imported |-> NoImport]

\* One run of a route tool: load_domain_agent, then the dispatch. tool is the
\* tool the caller invoked, target the route tool whose body runs.
RunRouteTool(tool, target, q, outcome) ==
    LET entry == RouteTable[target]
        loaded == load_domain_agent(domain_agents, entry.domain_name, outcome)
    IN  /\ calls < MaxCalls
        /\ calls' = calls + 1
        /\ domain_agents' = loaded.cache
        /\ loads' = IF loaded.imported = "ok"
                    THEN [loads EXCEPT ![entry.domain_name] = @ + 1]
                    ELSE loads
        /\ lastCall' =
              [tool |-> tool,
               domain_name |-> entry.domain_name,
               imported |-> loaded.imported,
               agent |-> loaded.agent,
               raised |-> loaded.raised,
               result |-> IF loaded.raised THEN [via |-> "exception"]
                          ELSE Dispatch(loaded.agent, entry.label, q),
               afterFailure |-> /\ lastCall.domain_name = entry.domain_name
                                /\ lastCall.imported \notin {"ok", NoImport}]
        /\ UNCHANGED <<taskVars, classifierVars, extractVars, toolVars, execVars, requestVars, sessionVars>>

\* How the import a call would attempt can end; a cache hit imports nothing.
OutcomesFor(target) ==
    IF CacheHit(domain_agents, RouteTable[target].domain_name)
    THEN {"ok"}
    ELSE ImportOutcomes

\* A route_* tool, or use_sda_tools, called directly.
RouteTool ==
    \E tool \in DOMAIN RouteTable, q \in RouterQueries :
        \E outcome \in OutcomesFor(tool) :
            RunRouteTool(tool, tool, q, outcome)

\* use_device_inventory_tools, use_task_tools (lines 263-286)
LegacyTool ==
    \E tool \in DOMAIN Forwarders, q \in RouterQueries :
        \E outcome \in OutcomesFor(Forwarders[tool]) :
            RunRouteTool(tool, Forwarders[tool], q, outcome)

\* intelligent_route (lines 289-319)
IntelligentRoute ==
    \E q \in RouterQueries :
        \E outcome \in OutcomesFor(RouteFunction(Classified[q])) :
            RunRouteTool("intelligent_route", RouteFunction(Classified[q]), q, outcome)

\* ========================================================================
\* JSON values as Python holds them, and the Python operations
\* extract_task_id_from_response applies to them
\* (src/agents/task/tools.py, lines 11-49)
\* ========================================================================

\* None / null, numbers, strings (sequences of characters), lists, dicts
\* (functions from key strings to values).
JNull == [kind |-> "null"]
JNum(n) == [kind |-> "number", n |-> n]
JStr(s) == [kind |-> "string", s |-> s]
JList(items) == [kind |-> "list", items |-> items]
JDict(d) == [kind |-> "dict", d |-> d]

EmptyDict == [k \in {} |-> JNull]

\* The key and separator strings of lines 27-46.
KeyResponse == <<"r","e","s","p","o","n","s","e">>
KeyTaskId == <<"t","a","s","k","I","d">>
KeyUrl == <<"u","r","l">>
KeyExecutionId == <<"e","x","e","c","u","t","i","o","n","I","d">>
TaskSeparator == <<"/","t","a","s","k","/">>

\* bool(v), as "if not response" (line 23) evaluates it
Truthy(v) ==
    CASE v.kind = "null" -> FALSE
      [] v.kind = "number" -> v.n # 0
      [] v.kind = "string" -> Len(v.s) > 0
      [] v.kind = "list" -> Len(v.items) > 0
      [] v.kind = "dict" -> DOMAIN v.d # {}

\* Whether "key in v" can be evaluated: None and numbers are not containers
\* (TypeError: argument of type ... is not iterable).
SupportsIn(v) == v.kind \in {"string", "list", "dict"}

\* "key in v" for a string key: key membership of a dict, substring test of
\* a string, element membership of a list.
In(key, v) ==
    CASE v.kind = "dict" -> key \in DOMAIN v.d
      [] v.kind = "string" -> Contains(key, v.s)
      [] v.kind = "list" -> \E i \in 1 .. Len(v.items) : v.items[i] = JStr(key)

\* Whether v[key] with a string key can be evaluated once "key in v" held:
\* only a dict is indexed by a string (str and list raise TypeError).
SupportsGetItem(v) == v.kind = "dict"

\* The last piece of s.split(sep): split scans s from the left for
\* non-overlapping occurrences of sep; from is where the current piece
\* starts and i the position being examined.
RECURSIVE LastPiece(_, _, _, _)
LastPiece(s, sep, from, i) ==
    IF i + Len(sep) - 1 > Len(s) THEN SubSeq(s, from, Len(s))
    ELSE IF OccursAt(sep, s, i) THEN LastPiece(s, sep, i + Len(sep), i + Len(sep))
    ELSE LastPiece(s, sep, from, i + 1)

\* url.split("/task/")[-1] (line 39)
SplitLast(s, sep) == LastPiece(s, sep, 1, 1)

\* How a piece of code ends: it returns a value, raises, or falls through
\* to the statement after it.
Return(v) == [out |-> "return", value |-> v]
Raise(e) == [out |-> "raise", error |-> e]
FallThrough == [out |-> "next"]

\* Lines 35-39, url = resp["url"]
FromUrl(url) ==
    IF ~SupportsIn(url) THEN Raise("TypeError")
    ELSE IF In(TaskSeparator, url)
         THEN IF url.kind = "string"
              THEN Return(JStr(SplitLast(url.s, TaskSeparator)))
              ELSE Raise("AttributeError")
         ELSE FallThrough

\* Lines 28-39, resp = response["response"]
FromResponseField(resp) ==
    IF ~SupportsIn(resp) THEN Raise("TypeError")
    ELSE IF In(KeyTaskId, resp)
         THEN IF SupportsGetItem(resp) THEN Return(resp.d[KeyTaskId])
              ELSE Raise("TypeError")
         ELSE IF In(KeyUrl, resp)
              THEN IF SupportsGetItem(resp) THEN FromUrl(resp.d[KeyUrl])
                   ELSE Raise("TypeError")
              ELSE FallThrough

\* Mutant of FromTopLevel: executionId is consulted before taskId.
FromTopLevelExecutionIdFirst(r) ==
    IF ~SupportsIn(r) THEN Raise("TypeError")
    ELSE IF In(KeyExecutionId, r)
         THEN IF SupportsGetItem(r) THEN Return(r.d[KeyExecutionId])
              ELSE Raise("TypeError")
         ELSE IF In(KeyTaskId, r)
              THEN IF SupportsGetItem(r) THEN Return(r.d[KeyTaskId])
                   ELSE Raise("TypeError")
              ELSE Return(JNull)

\* Lines 41-49: top-level taskId, then executionId, then None.
FromTopLevel(r) ==
    IF ~SupportsIn(r) THEN Raise("TypeError")
    ELSE IF In(KeyTaskId, r)
         THEN IF SupportsGetItem(r) THEN Return(r.d[KeyTaskId])
              ELSE Raise("TypeError")
         ELSE IF In(KeyExecutionId, r)
              THEN IF SupportsGetItem(r) THEN Return(r.d[KeyExecutionId])
                   ELSE Raise("TypeError")
              ELSE Return(JNull)

\* extract_task_id_from_response (lines 11-49)
extract_task_id_from_response(r) ==
    IF ~Truthy(r) THEN Return(JNull)
    ELSE IF ~SupportsIn(r) THEN Raise("TypeError")
    ELSE IF In(KeyResponse, r)
         THEN IF ~SupportsGetItem(r) THEN Raise("TypeError")
              ELSE LET inner == FromResponseField(r.d[KeyResponse])
                   IN  IF inner.out = "next" THEN FromTopLevel(r) ELSE inner
         ELSE FromTopLevel(r)

\* ---- responses handed to extract_task_id_from_response -------------------
\* None, and JSON objects holding any of `response`, taskId and executionId.
\* The `response` value is an object holding any of taskId and url, or a
\* value that is not an object; url is a string with or without "/task/",
\* or a value that is not a string.
Responses ==
    LET Absent == [kind |-> "absent"]
        Field(k, v) == IF v.kind = "absent" THEN EmptyDict ELSE (k :> v)
        UrlStrings == {
            <<"/","t","a","s","k","/","B">>,
            <<"/","v","1","/","t","a","s","k","/","B","/","t","a","s","k","/","C">>,
            <<"/","t","a","s","k","/","t","a","s","k","/","C">>,
            <<"/","t","a","s","k","/">>,
            <<"/","t","a","s","k","s">>,
            <<>> }
        UrlValues ==
            { JStr(u) : u \in UrlStrings } \cup
            { JNull, JNum(5), JList(<<>>), JList(<<JStr(TaskSeparator)>>),
              JDict(TaskSeparator :> JStr(<<"B">>)) }
        ResponseObjects ==
            { JDict(Field(KeyTaskId, t) @@ Field(KeyUrl, u)) :
                t \in {JStr(<<"A">>), JNull, Absent}, u \in UrlValues \cup {Absent} }
        ResponseValues ==
            ResponseObjects \cup
            { JNull, JNum(0), JNum(5), JStr(<<>>), JStr(<<"o","k">>), JStr(KeyTaskId),
              JStr(KeyUrl), JList(<<>>), JList(<<JStr(KeyTaskId)>>),
              JList(<<JStr(KeyUrl)>>) }
    IN  { JNull } \cup
        { JDict(Field(KeyResponse, r) @@ Field(KeyTaskId, t) @@ Field(KeyExecutionId, e)) :
            r \in ResponseValues \cup {Absent},
            t \in {JStr(<<"T">>), Absent},
            e \in {JStr(<<"E">>), Absent} }

NotExtracted == [out |-> "(not called)"]

\* One call of extract_task_id_from_response(response).
Extract ==
    /\ task_id = NotExtracted
    /\ task_id' = extract_task_id_from_response(response)
    /\ UNCHANGED response
    /\ UNCHANGED <<taskVars, classifierVars, routerVars, toolVars, execVars, requestVars, sessionVars>>

\* ========================================================================
\* The task tools called directly (src/agents/task/tools.py)
\* ========================================================================

\* What Transport can hand back for GET .../tasks: None, a dict without
\* "response", or a dict with a list of task records under "response".
TaskListReplies ==
    LET ListReply(items) ==
            [truthy |-> TRUE, hasResponse |-> TRUE, response |-> [items |-> items]]
    IN  { NoneReply, ErrorDictReply, ListReply(<<>>),
          ListReply(<<TaskRecord(TRUE, TRUE, TRUE, EndStamp)>>) }

\* get_tasks (lines 121-177): the not-connected error object, else
\* Transport's reply.
get_tasks(cl, reply) == IF cl = NoClient THEN NotConnectedReply ELSE reply

\* get_recent_failed_tasks (lines 297-347), given what its get_tasks call
\* returned: the strings of lines 308, 314, 319 and 347.
get_recent_failed_tasks(cl, got) ==
    IF cl = NoClient THEN NotConnectedMsg
    ELSE IF FetchFailed(got)
         THEN [head |-> "No failed tasks found or error retrieving tasks.", status |-> "-"]
    ELSE IF Len(got["response"].items) = 0
         THEN [head |-> "No recent failed tasks found.", status |-> "-"]
    ELSE [head |-> "Recent Failed Tasks:", status |-> "-",
          count |-> Len(got["response"].items)]

\* The caller is between calls.
NoCallRunning == pc = "idle" /\ calledTool = NoTool /\ execPc = "idle"

\* The caller invokes get_task_by_id (lines 103-118).
GetTaskById ==
    /\ NoCallRunning
    /\ calledTool' = "get_task_by_id"
    /\ \E reply \in TransportReplies(remote) :
          task_response' = get_task_by_id(client, reply)
    /\ fetches' = IF client = NoClient THEN fetches ELSE fetches + 1
    /\ pc' = "done"
    /\ UNCHANGED <<client, remote, now, max_wait_seconds, check_interval_seconds,
                   start_wait_time, max_wait_time, task, elapsed_time, result,
                   loopFetches, sleeps, timeAtCheck>>
    /\ UNCHANGED <<tasks_response, taskListRequests>>
    /\ UNCHANGED <<classifierVars, routerVars, extractVars, execVars, requestVars, sessionVars>>

\* The caller invokes get_tasks (lines 121-177).
GetTasks ==
    /\ NoCallRunning
    /\ calledTool' = "get_tasks"
    /\ \E reply \in TaskListReplies :
          tasks_response' = get_tasks(client, reply)
    /\ taskListRequests' = IF client = NoClient THEN taskListRequests
                           ELSE taskListRequests + 1
    /\ pc' = "done"
    /\ UNCHANGED <<client, remote, now, max_wait_seconds, check_interval_seconds,
                   start_wait_time, max_wait_time, task, elapsed_time, result,
                   fetches, loopFetches, sleeps, task_response, timeAtCheck>>
    /\ UNCHANGED <<classifierVars, routerVars, extractVars, execVars, requestVars, sessionVars>>

\* The caller invokes check_task_status (lines 180-249).
CheckTaskStatus ==
    /\ NoCallRunning
    /\ calledTool' = "check_task_status"
    /\ IF client = NoClient
       THEN /\ result' = check_task_status(client, NoneReply)
            /\ UNCHANGED <<task_response, fetches>>
       ELSE \E reply \in TransportReplies(remote) :
               LET got == get_task_by_id(client, reply) IN
               /\ task_response' = got
               /\ fetches' = fetches + 1
               /\ result' = check_task_status(client, got)
    /\ pc' = "done"
    /\ UNCHANGED <<client, remote, now, max_wait_seconds, check_interval_seconds,
                   start_wait_time, max_wait_time, task, elapsed_time,
                   loopFetches, sleeps, timeAtCheck>>
    /\ UNCHANGED <<tasks_response, taskListRequests>>
    /\ UNCHANGED <<classifierVars, routerVars, extractVars, execVars, requestVars, sessionVars>>

\* The caller invokes get_recent_failed_tasks (lines 297-347).
GetRecentFailedTasks ==
    /\ NoCallRunning
    /\ calledTool' = "get_recent_failed_tasks"
    /\ IF client = NoClient
       THEN /\ result' = get_recent_failed_tasks(client, NoneReply)
            /\ UNCHANGED <<tasks_response, taskListRequests>>
       ELSE \E reply \in TaskListReplies :
               LET got == get_tasks(client, reply) IN
               /\ tasks_response' = got
               /\ taskListRequests' = taskListRequests + 1
               /\ result' = get_recent_failed_tasks(client, got)
    /\ pc' = "done"
    /\ UNCHANGED <<client, remote, now, max_wait_seconds, check_interval_seconds,
                   start_wait_time, max_wait_time, task, elapsed_time,
                   fetches, loopFetches, sleeps, task_response, timeAtCheck>>
    /\ UNCHANGED <<classifierVars, routerVars, extractVars, execVars, requestVars, sessionVars>>

\* ========================================================================
\* execute_and_monitor_task (src/agents/task/tools.py, lines 52-100)
\* ========================================================================

\* check_interval_seconds of the wait the wrapper starts: the default of
\* wait_for_task_completion (line 253), since line 92 passes none.
DefaultCheckInterval == 5

\* Strings the wrapper returns, by their fixed part.
NoResponseMsg == [head |-> "Error: failed - no response received", status |-> "-"]
ImmediateMsg(r) ==
    [head |-> "completed immediately. Response:", status |-> "-", raw |-> r]
InitiatedAndWaitedMsg(id, mw, completion) ==
    [head |-> "initiated successfully. Task ID:", status |-> completion.status,
     id |-> id, max |-> mw, completion |-> completion]
InitiatedMsg(id) ==
    [head |-> "initiated successfully. Task ID:", status |-> "-",
     id |-> id, hint |-> "Use 'check task status for <id>' to monitor progress."]
ErrorExecutingMsg(e) == [head |-> "Error executing", status |-> "-", error |-> e]

\* Mutant of ExceptClauseCatches: the clause names RuntimeError only.
ExceptClauseCatchesRuntimeErrorOnly(e) == e = "RuntimeError"

\* "except Exception as e" (line 99): the classes raised inside the try
\* block that derive from Exception.
ExceptClauseCatches(e) == e \in {"TypeError", "AttributeError", "RuntimeError"}

\* What operation_func can do: raise, or return one of these results.
OperationOutcomes ==
    LET OperationResults == {
            JNull,
            JDict(EmptyDict),
            JDict(KeyResponse :> JNull),
            JDict(KeyResponse :> JDict(EmptyDict)),
            JDict(KeyResponse :> JDict(KeyTaskId :> JStr(<<"A">>))),
            JDict(KeyResponse :> JDict(KeyUrl :> JStr(TaskSeparator))),
            JDict(KeyExecutionId :> JStr(<<"E">>)) }
    IN  { Return(r) : r \in OperationResults } \cup { Raise("RuntimeError") }

\* An exception of class e leaves the try block at `where`: the except
\* clause turns it into the returned string, or it propagates.
Handle(e, where) ==
    /\ raisedIn' = where
    /\ IF ExceptClauseCatches(e)
       THEN /\ execResult' = ErrorExecutingMsg(e)
            /\ execPc' = "done"
       ELSE /\ execPc' = "raised"
            /\ UNCHANGED execResult

\* Entry: the client check of lines 69-71.
ExecCall ==
    /\ NoCallRunning
    /\ calledTool' = "execute_and_monitor_task"
    /\ \E aw \in BOOLEAN, mw \in WaitArgs :
          /\ auto_wait' = aw
          /\ max_wait_seconds' = mw
    /\ IF client = NoClient
       THEN /\ execResult' = NotConnectedMsg
            /\ execPc' = "done"
       ELSE /\ execPc' = "operation"
            /\ UNCHANGED execResult
    /\ UNCHANGED <<operationRuns, raisedIn>>
    /\ UNCHANGED <<client, remote, now, pc, check_interval_seconds,
                   start_wait_time, max_wait_time, task, elapsed_time, result,
                   fetches, loopFetches, sleeps, task_response, timeAtCheck>>
    /\ UNCHANGED <<tasks_response, taskListRequests>>
    /\ UNCHANGED <<classifierVars, routerVars, extractVars, requestVars, sessionVars>>

\* Lines 76-95: operation_func runs and its result is examined, up to the
\* return or to the entry of wait_for_task_completion (line 92).
ExecOperation ==
    /\ execPc = "operation"
    /\ operationRuns' = operationRuns + 1
    /\ UNCHANGED <<calledTool, tasks_response, taskListRequests, auto_wait>>
    /\ UNCHANGED <<classifierVars, routerVars, requestVars, sessionVars>>
    /\ \E outcome \in OperationOutcomes :
          IF outcome.out = "raise"
          THEN /\ Handle(outcome.error, "operation")
               /\ UNCHANGED <<taskVars, extractVars>>
          ELSE LET r == outcome.value
                   extracted == extract_task_id_from_response(r)
               IN  /\ response' = r
                   /\ IF ~Truthy(r)
                      THEN /\ execResult' = NoResponseMsg
                           /\ execPc' = "done"
                           /\ UNCHANGED <<taskVars, task_id, raisedIn>>
                      ELSE /\ task_id' = extracted
                           /\ IF extracted.out = "raise"
                              THEN /\ Handle(extracted.error, "extract")
                                   /\ UNCHANGED taskVars
                              ELSE IF ~Truthy(extracted.value)
                              THEN /\ execResult' = ImmediateMsg(r)
                                   /\ execPc' = "done"
                                   /\ UNCHANGED <<taskVars, raisedIn>>
                              ELSE IF auto_wait
                              THEN /\ StartWait(max_wait_seconds, DefaultCheckInterval)
                                   /\ execPc' = "waiting"
                                   /\ UNCHANGED <<execResult, raisedIn>>
                              ELSE /\ execResult' = InitiatedMsg(extracted.value)
                                   /\ execPc' = "done"
                                   /\ UNCHANGED <<taskVars, raisedIn>>

\* Lines 92-97: wait_for_task_completion has returned; its string ends the
\* wrapper's result.
ExecReturn ==
    /\ execPc = "waiting"
    /\ pc = "done"
    /\ execResult' = InitiatedAndWaitedMsg(task_id.value, max_wait_seconds, result)
    /\ execPc' = "done"
    /\ UNCHANGED <<auto_wait, operationRuns, raisedIn>>
    /\ UNCHANGED <<taskVars, classifierVars, routerVars, extractVars, toolVars, requestVars, sessionVars>>

\* A fetch of the wait started at line 92 is answered with a "response" that
\* is not an object: task.get (line 280) raises AttributeError, which leaves
\* wait_for_task_completion and reaches the except clause of line 99.
WaitRaises ==
    /\ execPc = "waiting"
    /\ pc = "fetch"
    /\ \E d \in 0 .. MaxFetchDelay : now' = now + d
    /\ task_response' = [truthy |-> TRUE, hasResponse |-> TRUE,
                         response |-> [notAnObject |-> TRUE]]
    /\ fetches' = fetches + 1
    /\ loopFetches' = loopFetches + 1
    /\ pc' = "raised"
    /\ Handle("AttributeError", "wait")
    /\ UNCHANGED <<auto_wait, operationRuns>>
    /\ UNCHANGED <<client, remote, max_wait_seconds, check_interval_seconds,
                   start_wait_time, max_wait_time, task, elapsed_time, result,
                   sleeps, timeAtCheck>>
    /\ UNCHANGED <<classifierVars, routerVars, extractVars, toolVars, requestVars, sessionVars>>

\* ========================================================================
\* CatalystCenterClient.request (src/client.py, lines 20-75)
\* ========================================================================

\* Sends of one call followed by the model (the code sets no limit), and
\* calls made on one client.
MaxSends == 3
MaxRequests == 3

\* self.token: NoToken is None, k > 0 the k-th token the server issued.
NoToken == 0

\* How authenticate() can end (lines 31-39): a token was issued, and the
\* call returns True; the response carried no "Token" (self.token becomes
\* None, line 35) or the POST failed (self.token is left as it was), and
\* the call returns False.
AuthOutcomes == {"token", "no token", "error"}

\* self.token after authenticate(), given the tokens issued so far.
TokenAfterAuth(tok, outcome, issuedSoFar) ==
    CASE outcome = "token" -> issuedSoFar + 1
      [] outcome = "no token" -> NoToken
      [] outcome = "error" -> tok

\* How the HTTP exchange of lines 61-63 can end: a JSON body, the status
\* 401, another error status, or any other exception.
SendOutcomes == {"json", "401", "other status", "exception"}

NotReturned == "(not returned)"
JsonBody == "json"
NoneValue == "None"

\* Lines 65-70: the request is sent again (self.request is called again)
\* when the status is 401 and authenticate() succeeded.
RetryOn401(status, reauthenticated) == status = "401" /\ reauthenticated

\* The caller invokes request(method, endpoint) on the client: line 43.
RequestCall ==
    /\ requestPc \in {"idle", "done"}
    /\ requests < MaxRequests
    /\ requests' = requests + 1
    /\ requestPc' = IF token = NoToken THEN "authenticate" ELSE "send"
    /\ sends' = 0
    /\ reauthentications' = 0
    /\ returned' = NotReturned
    /\ UNCHANGED <<token, issued, sentToken>>
    /\ UNCHANGED <<taskVars, classifierVars, routerVars, extractVars, toolVars, execVars, sessionVars>>

\* Line 43: no token yet, so authenticate() runs; the call returns None when
\* it fails.
Authenticate ==
    /\ requestPc = "authenticate"
    /\ \E outcome \in AuthOutcomes :
          /\ token' = TokenAfterAuth(token, outcome, issued)
          /\ issued' = IF outcome = "token" THEN issued + 1 ELSE issued
          /\ IF outcome = "token"
             THEN /\ requestPc' = "send"
                  /\ UNCHANGED returned
             ELSE /\ requestPc' = "done"
                  /\ returned' = NoneValue
    /\ UNCHANGED <<sends, reauthentications, sentToken, requests>>
    /\ UNCHANGED <<taskVars, classifierVars, routerVars, extractVars, toolVars, execVars, sessionVars>>

\* Lines 46-75: the request is sent with the current token. A 401 leads to
\* authenticate() (line 66) and, when that succeeds, to a new call of
\* request (line 70), which finds a token and sends again.
Send ==
    /\ requestPc = "send"
    /\ sends' = sends + 1
    /\ sentToken' = token
    /\ UNCHANGED requests
    /\ \E status \in SendOutcomes :
          /\ status = "401" => sends < MaxSends
          /\ IF status = "json"
             THEN /\ returned' = JsonBody
                  /\ requestPc' = "done"
                  /\ UNCHANGED <<token, issued, reauthentications>>
             ELSE IF status = "401"
             THEN \E outcome \in AuthOutcomes :
                     /\ token' = TokenAfterAuth(token, outcome, issued)
                     /\ issued' = IF outcome = "token" THEN issued + 1 ELSE issued
                     /\ reauthentications' = reauthentications + 1
                     /\ IF RetryOn401(status, outcome = "token")
                        THEN /\ requestPc' = "send"
                             /\ UNCHANGED returned
                        ELSE /\ returned' = NoneValue
                             /\ requestPc' = "done"
             ELSE /\ returned' = NoneValue
                  /\ requestPc' = "done"
                  /\ UNCHANGED <<token, issued, reauthentications>>
    /\ UNCHANGED <<taskVars, classifierVars, routerVars, extractVars, toolVars, execVars, sessionVars>>

\* ========================================================================
\* The authentication group (src/agents/authentication/tools.py):
\* run_tools and connect, and the sessions of client_manager
\* (src/client.py, lines 78-106)
\* ========================================================================

\* The characters str.split() splits at.
IsSpace(c) == c \in {" ", "\t", "\n"}

\* query.split() (line 128): the maximal runs of non-space characters.
RECURSIVE split(_)
split(s) ==
    IF s = <<>> THEN <<>>
    ELSE IF IsSpace(Head(s)) THEN split(Tail(s))
    ELSE LET n == CHOOSE k \in 1 .. Len(s) :
                    /\ \A j \in 1 .. k : ~IsSpace(s[j])
                    /\ (k = Len(s) \/ IsSpace(s[k + 1]))
         IN  <<SubSeq(s, 1, n)>> \o split(SubSeq(s, n + 1, Len(s)))

\* re.search(r'https?://[\w\.\-:]+', query).group() (lines 127, 131): the
\* leftmost place where "http://" or "https://" is followed by a character
\* of the class, and the longest run of class characters from there; <<>>
\* stands for no match.
url_match(s) ==
    LET InClass(c) == IsWordChar(c) \/ c \in {".", "-", ":"}
        Schemes == { <<"h","t","t","p",":","/","/">>, <<"h","t","t","p","s",":","/","/">> }
        \* the end of the match of scheme sch at position i, or 0
        EndAt(sch, i) ==
            IF /\ OccursAt(sch, s, i)
               /\ i + Len(sch) <= Len(s)
               /\ InClass(s[i + Len(sch)])
            THEN CHOOSE e \in (i + Len(sch)) .. Len(s) :
                    /\ \A j \in (i + Len(sch)) .. e : InClass(s[j])
                    /\ (e = Len(s) \/ ~InClass(s[e + 1]))
            ELSE 0
        Starts == { i \in 1 .. Len(s) : \E sch \in Schemes : EndAt(sch, i) > 0 }
    IN  IF Starts = {} THEN <<>>
        ELSE LET i == CHOOSE a \in Starts : \A b \in Starts : a <= b
                 sch == CHOOSE c \in Schemes : EndAt(c, i) > 0
             IN  SubSeq(s, i, EndAt(sch, i))

\* Lines 135-139: the index, counted from 0, of the first word that holds
\* base_url; -1 when no word does.
url_index(words, base_url) ==
    LET Holding == { i \in 1 .. Len(words) : Contains(base_url, words[i]) }
    IN  IF Holding = {} THEN 0 - 1
        ELSE (CHOOSE a \in Holding : \A b \in Holding : a <= b) - 1

\* Mutant of ConnectDetected: every query is taken for a connect command.
ConnectDetectedAlways(q) == TRUE

\* '"connect" in query.lower()' (line 122)
ConnectDetected(q) == Contains(<<"c","o","n","n","e","c","t">>, lower(q))

\* Mutant of Credentials: the two words after the URL are taken in the
\* opposite order.
CredentialsSwapped(words, at) ==
    [username |-> words[at + 3], password |-> words[at + 2]]

\* Lines 142-143: words[url_index + 1] and words[url_index + 2], at counted
\* from 0.
Credentials(words, at) ==
    [username |-> words[at + 2], password |-> words[at + 3]]

\* run_tools up to its call of connect (lines 117-164): the call of connect it
\* makes, or the string it returns without one, or the fallback to
\* process_request.
run_tools(q) ==
    IF ~ConnectDetected(q) THEN [via |-> "process_request"]
    ELSE LET base_url == url_match(q)
             words == split(q)
             at == url_index(words, base_url)
         IN  IF base_url = <<>>
             THEN [via |-> "string", text |-> "No valid URL found in connection request"]
             ELSE IF at >= 0 /\ Len(words) > at + 2
             THEN [via |-> "connect", base_url |-> base_url,
                   username |-> Credentials(words, at).username,
                   password |-> Credentials(words, at).password]
             ELSE [via |-> "string",
                   text |-> "Failed to extract connection parameters from query"]

\* ---- the queries run_tools is applied to ---------------------------------
MaxWords == 4

\* Queries of up to MaxWords words, one space between two words.
ConnectQueries ==
    LET Words == {
            <<"c","o","n","n","e","c","t">>,
            <<"R","e","C","o","n","n","e","c","t">>,
            <<"h","t","t","p","s",":","/","/","h","1">>,
            <<"h","t","t","p",":","/","/","h","2","/","x">>,
            <<"h","t","t","p","s",":","/","/">>,
            <<"u">>,
            <<"p">> }
        Join(ws) == Concat([i \in 1 .. Len(ws) |->
                              IF i = 1 THEN ws[i] ELSE <<" ">> \o ws[i]])
    IN  { Join(ws) : ws \in UNION { [1 .. n -> Words] : n \in 0 .. MaxWords } }

\* ---- tool calls as coroutines ---------------------------------------------
\* A tool call runs without interruption up to its first Transport round
\* trip: the token POST of authenticate() (client.py line 33) for connect,
\* the GET of client.request for get_task_by_id. Calls in flight are resumed
\* in any order.
MaxInvocations == 3

\* The objects CatalystCenterClient(...) returns (line 32), in the order of
\* their construction.
ClientNames == <<"client1", "client2", "client3", "client4">>

\* A slot no call has used: no tool, no local client.
NoInvocation ==
    [pc |-> "idle", tool |-> NoTool, query |-> <<>>, domain_name |-> "(none)",
     local |-> NoClient, seen |-> NoClient, out |-> [via |-> "(none)"]]

\* Mutant of ActiveAfterConnect: the new client is installed whether or not
\* it authenticated.
ActiveAfterConnectUnchecked(active, new, authenticated) == new

\* Lines 33-34: client_manager.set_client(client) only if authenticate()
\* returned True.
ActiveAfterConnect(active, new, authenticated) ==
    IF authenticated THEN new ELSE active

\* get_task_by_id line 118: the request is made on the local variable client
\* that line 113 read.
RequestClient(local, active) == local

\* How the awaited connect can end for run_tools (lines 147-154): as
\* authenticate() ends, or with an exception raised outside authenticate's
\* own try block (client.py line 31).
ConnectOutcomes == AuthOutcomes \cup {"raises"}

\* connect(base_url, username, password) is entered (line 32): a client is
\* constructed and its authenticate() awaits the token POST.
ConnectStarts(i, tool, q, domain_name, args) ==
    /\ created < Len(ClientNames)
    /\ created' = created + 1
    /\ invocations' = [invocations EXCEPT ![i] =
          [pc |-> "awaiting", tool |-> tool, query |-> q, domain_name |-> domain_name,
           local |-> ClientNames[created + 1], seen |-> client, out |-> args]]

\* A call that returns out without having awaited anything.
ReturnsAtOnce(i, tool, q, domain_name, returned_value) ==
    /\ invocations' = [invocations EXCEPT ![i] =
          [pc |-> "done", tool |-> tool, query |-> q, domain_name |-> domain_name,
           local |-> NoClient, seen |-> client, out |-> returned_value]]
    /\ UNCHANGED created

\* run_tools(query) of the authentication group is entered (lines 117-164).
EnterRunTools(i, tool, q, domain_name) ==
    LET parsed == run_tools(q) IN
    IF parsed.via = "connect"
    THEN ConnectStarts(i, tool, q, domain_name, parsed)
    ELSE ReturnsAtOnce(i, tool, q, domain_name, parsed)

\* The slot the next call takes: slots are taken in order.
FreeSlot(i) ==
    /\ invocations[i].pc = "idle"
    /\ \A j \in 1 .. (i - 1) : invocations[j].pc # "idle"

\* What a session action leaves alone besides the router's cache.
SessionFrame ==
    /\ UNCHANGED <<remote, now, pc, max_wait_seconds, check_interval_seconds,
                   start_wait_time, max_wait_time, task, elapsed_time, result,
                   fetches, loopFetches, sleeps, task_response, timeAtCheck>>
    /\ UNCHANGED <<classifierVars, calls, lastCall, extractVars, toolVars, execVars>>
    /\ UNCHANGED <<token, requestPc, requests, sends, reauthentications,
                   sentToken, returned>>

\* run_tools(query) called on the authentication group directly.
RunToolsCall ==
    /\ FreeSlot(1)
    /\ EnterRunTools(1, "run_tools", query, "authentication")
    /\ UNCHANGED <<client, clientTokens, issued, domain_agents, loads>>
    /\ SessionFrame

\* The queries handed to the tools of a session: a connect command, and a
\* request about another group that carries a URL and two words but not the
\* word connect.
SessionQueries == {
    <<"c","o","n","n","e","c","t"," ","h","t","t","p","s",":","/","/","h","1"," ","u"," ","p">>,
    <<"s","w","i","t","c","h"," ","h","t","t","p","s",":","/","/","h","1"," ","u"," ","p">> }

SessionClassified == [q \in SessionQueries |-> classify_query(q)]

\* The router tools called in a session: a route tool whose group has
\* run_tools, one whose group has not, and intelligent_route.
SessionRouteTools ==
    ("route_authentication_requests" :> [q \in SessionQueries |-> "route_authentication_requests"]) @@
    ("route_network_inventory_requests" :> [q \in SessionQueries |-> "route_network_inventory_requests"]) @@
    ("intelligent_route" :> [q \in SessionQueries |-> RouteFunction(SessionClassified[q])])

\* A router tool is called: classify_query and the table lookup (for
\* intelligent_route), load_domain_agent, then the dispatch; the call is
\* suspended only when run_tools gets as far as connect.
InvokeRouteTool ==
    \E i \in 1 .. MaxInvocations, tool \in DOMAIN SessionRouteTools, q \in SessionQueries :
        LET target == SessionRouteTools[tool][q]
            entry == RouteTable[target] IN
        \E outcome \in OutcomesFor(target) :
            LET loaded == load_domain_agent(domain_agents, entry.domain_name, outcome)
                returned_value == Dispatch(loaded.agent, entry.label, q) IN
            /\ FreeSlot(i)
            /\ domain_agents' = loaded.cache
            /\ loads' = IF loaded.imported = "ok"
                        THEN [loads EXCEPT ![entry.domain_name] = @ + 1]
                        ELSE loads
            /\ IF loaded.raised
               THEN ReturnsAtOnce(i, tool, q, entry.domain_name, [via |-> "exception"])
               ELSE IF returned_value.via = "run_tools"
               THEN EnterRunTools(i, tool, q, entry.domain_name)
               ELSE ReturnsAtOnce(i, tool, q, entry.domain_name, returned_value)
            /\ UNCHANGED <<client, clientTokens, issued>>
            /\ SessionFrame

\* The token POST of a connect in flight ends: authenticate() returns
\* (client.py lines 33-39), connect installs the client or not (lines 33-36),
\* and run_tools returns connect's string, or "Connection failed: ..." when
\* connect raised (lines 149-154).
ConnectReturns ==
    \E i \in 1 .. MaxInvocations, outcome \in ConnectOutcomes :
        LET inv == invocations[i]
            authenticated == outcome = "token" IN
        /\ inv.pc = "awaiting"
        /\ inv.tool # "get_task_by_id"
        /\ clientTokens' =
              IF outcome = "raises" THEN clientTokens
              ELSE [clientTokens EXCEPT ![inv.local] = TokenAfterAuth(@, outcome, issued)]
        /\ issued' = IF authenticated THEN issued + 1 ELSE issued
        /\ client' = ActiveAfterConnect(client, inv.local, authenticated)
        /\ invocations' = [invocations EXCEPT ![i] =
              [inv EXCEPT !.pc = "done",
                          !.out = [via |-> "string",
                                   text |-> CASE outcome = "raises" -> "Connection failed: ..."
                                              [] authenticated -> "Successfully connected to Cisco Catalyst Center"
                                              [] OTHER -> "Failed to connect to Cisco Catalyst Center"]]]
        /\ UNCHANGED <<created, domain_agents, loads>>
        /\ SessionFrame

\* get_task_by_id is called (lines 113-118): the active client is read once;
\* with none, the error object is returned at once.
GetTaskCall ==
    \E i \in 1 .. MaxInvocations :
        /\ FreeSlot(i)
        /\ invocations' = [invocations EXCEPT ![i] =
              [pc |-> IF client = NoClient THEN "done" ELSE "awaiting",
               tool |-> "get_task_by_id", query |-> <<>>, domain_name |-> "(none)",
               local |-> client, seen |-> client,
               out |-> IF client = NoClient THEN [via |-> "not connected"]
                       ELSE [via |-> "(none)"]]]
        /\ UNCHANGED <<client, created, clientTokens, issued, domain_agents, loads>>
        /\ SessionFrame

\* The request of a get_task_by_id in flight completes (line 118).
GetTaskReturns ==
    \E i \in 1 .. MaxInvocations :
        /\ invocations[i].pc = "awaiting"
        /\ invocations[i].tool = "get_task_by_id"
        /\ invocations' = [invocations EXCEPT ![i] =
              [@ EXCEPT !.pc = "done",
                        !.out = [via |-> "request",
                                 on |-> RequestClient(invocations[i].local, client)]]]
        /\ UNCHANGED <<client, created, clientTokens, issued, domain_agents, loads>>
        /\ SessionFrame

\* ---- idle values of the variables a specification does not use ----------
TaskIdle ==
    /\ client = NoClient
    /\ remote \in {TaskRecord(TRUE, FALSE, TRUE, 0)}
    /\ now = 0
    /\ pc = "idle"
    /\ max_wait_seconds = 0
    /\ check_interval_seconds = 0
    /\ start_wait_time = 0
    /\ max_wait_time = 0
    /\ task = NoTask
    /\ elapsed_time = 0
    /\ result = NoResult
    /\ fetches = 0
    /\ loopFetches = 0
    /\ sleeps = 0
    /\ task_response = NoneReply
    /\ timeAtCheck = 0

ClassifierIdle ==
    /\ query = <<>>
    /\ domain = NotClassified

ExtractIdle ==
    /\ response = JNull
    /\ task_id = NotExtracted

\* No tool has been called.
ToolIdle ==
    /\ calledTool = NoTool
    /\ tasks_response = NoneReply
    /\ taskListRequests = 0

ExecIdle ==
    /\ execPc = "idle"
    /\ auto_wait = TRUE
    /\ execResult = NoResult
    /\ operationRuns = 0
    /\ raisedIn = "(nowhere)"

\* A client as __init__ leaves it (line 18), no call made.
RequestIdle ==
    /\ token = NoToken
    /\ issued = 0
    /\ requestPc = "idle"
    /\ requests = 0
    /\ sends = 0
    /\ reauthentications = 0
    /\ sentToken = NoToken
    /\ returned = NotReturned

\* No tool call was made and connect has constructed no client.
SessionIdle ==
    /\ invocations = [i \in 1 .. MaxInvocations |-> NoInvocation]
    /\ created = 0
    /\ clientTokens = [c \in Range(ClientNames) |-> NoToken]

\* After import of router.py: domain_agents = {} (line 11), nothing loaded.
RouterIdle ==
    /\ domain_agents = [d \in {} |-> NoHandle]
    /\ loads = [d \in DomainNames |-> 0]
    /\ calls = 0
    /\ lastCall = NoCall

\* ---- the task monitor's specification ------------------------------------
\* After construction no client is set and the task was just created.
Init ==
    /\ client = NoClient
    /\ remote \in FreshRecords
    /\ now = 0
    /\ pc = "idle"
    /\ max_wait_seconds = 0
    /\ check_interval_seconds = 0
    /\ start_wait_time = 0
    /\ max_wait_time = 0
    /\ task = NoTask
    /\ elapsed_time = 0
    /\ result = NoResult
    /\ fetches = 0
    /\ loopFetches = 0
    /\ sleeps = 0
    /\ task_response = NoneReply
    /\ timeAtCheck = 0
    /\ ClassifierIdle
    /\ RouterIdle
    /\ ExtractIdle
    /\ ToolIdle
    /\ ExecIdle
    /\ RequestIdle
    /\ SessionIdle

Next ==
    \/ RemoteFinish
    \/ RemoteFail
    \/ Connect
    \/ WaitCall
    \/ LoopTest
    \/ Fetch
    \/ Summary
    \/ Sleep

Spec == Init /\ [][Next]_vars

\* The scheduler resumes a coroutine whose awaited fetch or sleep is over.
FairSpec == Init /\ [][Next]_vars /\ WF_vars(WaitStep)

\* ---- the task monitor with a Transport that answers at once ---------------
\* The fetch of the loop (line 274) and the fetch of check_task_status
\* (line 194) when the round trip takes no measurable time.
InstantFetch == Fetch /\ now' = now
InstantSummary == Summary /\ now' = now

InstantNext ==
    \/ RemoteFinish
    \/ RemoteFail
    \/ Connect
    \/ WaitCall
    \/ LoopTest
    \/ InstantFetch
    \/ InstantSummary
    \/ Sleep

InstantSpec == Init /\ [][InstantNext]_vars

\* ---- the classifier's specification ---------------------------------------
ClassifierInit ==
    /\ query \in Queries
    /\ domain = NotClassified
    /\ TaskIdle
    /\ RouterIdle
    /\ ExtractIdle
    /\ ToolIdle
    /\ ExecIdle
    /\ RequestIdle
    /\ SessionIdle

ClassifierNext == Classify

ClassifierSpec == ClassifierInit /\ [][ClassifierNext]_vars

\* ---- the router's specification -------------------------------------------
RouterInit ==
    /\ RouterIdle
    /\ TaskIdle
    /\ ClassifierIdle
    /\ ExtractIdle
    /\ ToolIdle
    /\ ExecIdle
    /\ RequestIdle
    /\ SessionIdle

RouterNext ==
    \/ RouteTool
    \/ LegacyTool
    \/ IntelligentRoute

RouterSpec == RouterInit /\ [][RouterNext]_vars

\* ---- the specification of extract_task_id_from_response -------------------
ExtractInit ==
    /\ response \in Responses
    /\ task_id = NotExtracted
    /\ TaskIdle
    /\ ClassifierIdle
    /\ RouterIdle
    /\ ToolIdle
    /\ ExecIdle
    /\ RequestIdle
    /\ SessionIdle

ExtractSpec == ExtractInit /\ [][Extract]_vars

\* ---- the specification of CatalystCenterClient.request --------------------
\* The client is new (token None) or was authenticated by connect.
RequestInit ==
    /\ token \in {NoToken, 1}
    /\ issued = token
    /\ requestPc = "idle"
    /\ requests = 0
    /\ sends = 0
    /\ reauthentications = 0
    /\ sentToken = NoToken
    /\ returned = NotReturned
    /\ TaskIdle
    /\ ClassifierIdle
    /\ RouterIdle
    /\ ExtractIdle
    /\ ToolIdle
    /\ ExecIdle
    /\ SessionIdle

RequestNext ==
    \/ RequestCall
    \/ Authenticate
    \/ Send

RequestSpec == RequestInit /\ [][RequestNext]_vars

\* ---- the specification of the task tools ----------------------------------
\* One call of one task tool, made before or after connect; the remote task
\* follows its lifecycle meanwhile.
ToolsNext ==
    \/ RemoteFinish
    \/ RemoteFail
    \/ Connect
    \/ GetTaskById
    \/ GetTasks
    \/ CheckTaskStatus
    \/ GetRecentFailedTasks
    \/ WaitCall
    \/ LoopTest
    \/ Fetch
    \/ Summary
    \/ Sleep
    \/ ExecCall
    \/ ExecOperation
    \/ ExecReturn
    \/ WaitRaises

ToolsSpec == Init /\ [][ToolsNext]_vars

\* ---- run_tools applied to bounded queries ---------------------------------
RunToolsInit ==
    /\ query \in ConnectQueries
    /\ domain = NotClassified
    /\ TaskIdle
    /\ RouterIdle
    /\ ExtractIdle
    /\ ToolIdle
    /\ ExecIdle
    /\ RequestIdle
    /\ SessionIdle

RunToolsNext ==
    \/ RunToolsCall
    \/ ConnectReturns

RunToolsSpec == RunToolsInit /\ [][RunToolsNext]_vars

\* ---- the tools of a session, called concurrently --------------------------
\* After start-up: no client is active, nothing is loaded, no call was made.
SessionInit ==
    /\ TaskIdle
    /\ ClassifierIdle
    /\ RouterIdle
    /\ ExtractIdle
    /\ ToolIdle
    /\ ExecIdle
    /\ RequestIdle
    /\ SessionIdle

SessionNext ==
    \/ InvokeRouteTool
    \/ ConnectReturns
    \/ GetTaskCall
    \/ GetTaskReturns

SessionSpec == SessionInit /\ [][SessionNext]_vars

\* ========================================================================
\* Task monitor: properties
\* ========================================================================

\* The terminal outcome a returned string stands for.
Outcome(r) ==
    IF r.head = SummaryMsg("-").head
    THEN (IF r.status = "IN PROGRESS" THEN "IN_PROGRESS" ELSE r.status)
    ELSE IF r.head = TimeoutMsg(0).head THEN "TIMED_OUT"
    ELSE IF r.head = CouldNotRetrieveMsg.head THEN "LOOKUP_ERROR"
    ELSE IF r.head = NotConnectedMsg.head THEN "NOT_CONNECTED"
    ELSE "NONE"

TerminalOutcomes == {"COMPLETED", "FAILED", "TIMED_OUT", "LOOKUP_ERROR"}

\* The poll loop has read a record with isError true or endTime > 0.
ObservedTerminal == task # NoTask /\ IsComplete(task)

\* The call is past its client check and has not returned.
Polling == pc \in {"loop", "fetch", "summary", "sleep"}

\* C1 (as claimed): once the poll loop has observed a record with isError true
\* or endTime > 0, it polls no more, and the summary the call returns says
\* FAILED if that record had isError true and COMPLETED otherwise, whatever
\* the remote record does afterwards.
C1_StatusOfObservedRecord ==
    ObservedTerminal =>
        /\ pc \in {"summary", "done"}
        /\ pc = "done" =>
              Outcome(result) = (IF GetIsError(task) THEN "FAILED" ELSE "COMPLETED")

\* C2 (as claimed): when the task source shows k running records and then a
\* finished one without error (and goes on showing it), the call returns a
\* COMPLETED summary after exactly k + 1 fetches in total; loopFetches is k + 1.
C2_ExactlyKPlusOneFetches ==
    ( /\ pc = "done"
      /\ ObservedTerminal
      /\ ~GetIsError(task)
      /\ task_response = OkReply(task) )
    => ( Outcome(result) = "COMPLETED" /\ fetches = loopFetches )

C4_TimeoutOnlyAfterDeadline ==
    /\ [](Outcome(result) = "TIMED_OUT" =>
            /\ pc = "done"
            /\ now - start_wait_time >= max_wait_seconds
            /\ result.wait >= max_wait_seconds
            /\ ~ObservedTerminal)
    /\ [][ /\ (pc = "loop" /\ pc' # "loop" /\ now - start_wait_time < max_wait_seconds)
                => pc' = "fetch"
           /\ (pc = "fetch" /\ pc' = "done") => Outcome(result') = "LOOKUP_ERROR"
           /\ (pc = "fetch" /\ pc' # "fetch" /\ ~FetchFailed(task_response')
                 /\ ~IsComplete(task_response'["response"]))
                => pc' = "sleep"
           /\ (pc = "sleep" /\ pc' # "sleep")
                => (pc' = "loop" /\ now' - now >= SleepDuration(check_interval_seconds))
         ]_vars

\* C4 witness: a Timeout returned after at least two polls of a running task.
C4_Witness ==
    /\ pc = "done"
    /\ Outcome(result) = "TIMED_OUT"
    /\ max_wait_seconds >= 2
    /\ sleeps >= 2
    /\ task # NoTask

\* C5: a fetch that fails (null, or no "response" key) ends the call at once
\* with the "Could not retrieve task" error, and a call that has returned
\* issues no further fetch and takes no further sleep.
C5_FailedFetchEndsCall ==
    /\ [][ (fetches' > fetches /\ FetchFailed(task_response'))
              => (pc' = "done" /\ Outcome(result') = "LOOKUP_ERROR") ]_vars
    /\ [][ pc = "done" => (pc' = "done" /\ fetches' = fetches
                           /\ sleeps' = sleeps /\ result' = result) ]_vars

\* C5 witness: the lookup error returned before the deadline, after earlier
\* fetches of the same call had succeeded.
C5_Witness ==
    /\ pc = "done"
    /\ Outcome(result) = "LOOKUP_ERROR"
    /\ FetchFailed(task_response)
    /\ fetches = loopFetches
    /\ loopFetches >= 2
    /\ sleeps >= 1
    /\ now < max_wait_time

\* ========================================================================
\* Classifier: properties
\* ========================================================================
WordConnect == <<"c","o","n","n","e","c","t">>
WordLogin == <<"l","o","g","i","n">>
WordSwitch == <<"s","w","i","t","c","h">>
WordInventory == <<"i","n","v","e","n","t","o","r","y">>

\* a and b are the same character up to letter case
SameLetter(a, b) ==
    \/ a = b
    \/ \E i \in DOMAIN UpperLetters : {a, b} = {UpperLetters[i], LowerLetters[i]}

\* word occurs in q as a substring, in any letter case
Mentions(word, q) ==
    \E i \in 1 .. (Len(q) - Len(word) + 1) :
        \A j \in 1 .. Len(word) : SameLetter(q[i + j - 1], word[j])

\* C6: a query that contains "connect" or "login", in any letter case, is
\* classified as "authentication", whatever else it contains.
C6_ConnectOrLoginIsAuthentication ==
    (domain # NotClassified /\ (Mentions(WordConnect, query) \/ Mentions(WordLogin, query)))
        => domain = "authentication"

\* C6 witness: a classified query with "login" in upper or mixed case next to
\* a device keyword.
C6_Witness ==
    /\ domain = "authentication"
    /\ Mentions(WordLogin, query)
    /\ ~Contains(WordLogin, query)
    /\ (Mentions(WordSwitch, query) \/ Mentions(WordInventory, query))

\* C7: whatever the query, the empty one included, the value classify_query
\* returns is a key of domain_mapping.
C7_ClassifiedDomainIsMapped ==
    domain # NotClassified => domain \in DOMAIN domain_mapping

\* C7 witness: the empty query has been classified.
C7_Witness ==
    /\ query = <<>>
    /\ domain # NotClassified

\* ========================================================================
\* Router: properties
\* ========================================================================

\* C8 (as claimed): when the group resolves, the router calls run_tools if
\* the group has it and process_request otherwise, and returns that result;
\* a group with only process_request is not answered with an error string.
C8_DispatchesToGenericEntryPoint ==
    ( /\ calls > 0
      /\ ~lastCall.raised
      /\ lastCall.agent \in (RunToolsGroups \cup ProcessRequestGroups) )
    => ( /\ lastCall.result.via =
               (IF lastCall.agent \in RunToolsGroups THEN "run_tools" ELSE "process_request")
         /\ lastCall.result.group = lastCall.agent )

\* C9: no domain name is imported successfully more than once, and a call
\* for a cached domain name returns the cached handle without any import.
C9_CachedHandleReused ==
    /\ [](\A d \in DomainNames : loads[d] <= 1)
    /\ [][ (calls' = calls + 1 /\ lastCall'.domain_name \in DOMAIN domain_agents)
              => /\ lastCall'.imported = NoImport
                 /\ lastCall'.agent = domain_agents[lastCall'.domain_name]
                 /\ domain_agents' = domain_agents
                 /\ loads' = loads ]_vars

\* C9 witness: intelligent_route served from the cache by a later call.
C9_Witness ==
    /\ calls >= 2
    /\ lastCall.tool = "intelligent_route"
    /\ lastCall.imported = NoImport
    /\ loads[lastCall.domain_name] = 1

\* C10: a failed load leaves domain_agents as it was, the cache never holds
\* None or any other failure marker, and a call for a domain name that is not
\* cached always attempts the import.
C10_FailedLoadNotCached ==
    /\ [](\A d \in DOMAIN domain_agents : domain_agents[d] \in Modules)
    /\ [][ (calls' = calls + 1 /\ lastCall'.imported \notin {"ok", NoImport})
              => domain_agents' = domain_agents ]_vars
    /\ [][ (calls' = calls + 1 /\ lastCall'.domain_name \notin DOMAIN domain_agents)
              => lastCall'.imported # NoImport ]_vars

\* C10 witness: a load that succeeds right after a failed load of the same
\* domain name.
C10_Witness ==
    /\ calls >= 2
    /\ lastCall.afterFailure
    /\ lastCall.imported = "ok"
    /\ lastCall.domain_name \in DOMAIN domain_agents

\* C11 (as claimed): whenever the import of a group fails, in whatever way,
\* the route call returns "Error: Could not load the <domain> agent." for the
\* requested domain and no exception reaches the caller of the router.
C11_LoadFailureReturnsErrorString ==
    ( /\ calls > 0
      /\ lastCall.imported \notin {"ok", NoImport} )
    => ( /\ ~lastCall.raised
         /\ \E t \in DOMAIN RouteTable :
                /\ RouteTable[t].domain_name = lastCall.domain_name
                /\ lastCall.result = [via |-> "error", label |-> RouteTable[t].label] )

\* ========================================================================
\* Task id extraction: properties
\* ========================================================================

\* v is a JSON object holding key k.
HasKey(v, k) == v.kind = "dict" /\ k \in DOMAIN v.d

\* A response of the documented shape: None or an object whose `response`,
\* if present, is an object whose url, if present, is a string.
WellFormedResponse(r) ==
    \/ r.kind = "null"
    \/ /\ r.kind = "dict"
       /\ HasKey(r, KeyResponse) =>
             /\ r.d[KeyResponse].kind = "dict"
             /\ HasKey(r.d[KeyResponse], KeyUrl) => r.d[KeyResponse].d[KeyUrl].kind = "string"

\* v is the text that follows the last "/task/" of url.
TextAfterTask(url, v) ==
    /\ OccursAt(TaskSeparator, url, Len(url) - Len(v) - Len(TaskSeparator) + 1)
    /\ SubSeq(url, Len(url) - Len(v) + 1, Len(url)) = v
    /\ ~Contains(TaskSeparator, v)

\* C12: on a response of the documented shape the call returns, in this
\* order of preference, response.taskId, the text after "/task/" in
\* response.url, the top-level taskId, the top-level executionId; the top
\* level is consulted when the `response` object yields nothing; None, {}
\* and a response with none of the four give None.
C12_FirstPresentValueWins ==
    (task_id # NotExtracted /\ WellFormedResponse(response)) =>
        /\ task_id.out = "return"
        /\ LET r == response
               nested == HasKey(r, KeyResponse)
               resp == r.d[KeyResponse]
           IN  IF r.kind = "null" \/ DOMAIN r.d = {}
                   THEN task_id.value = JNull
               ELSE IF nested /\ HasKey(resp, KeyTaskId)
                   THEN task_id.value = resp.d[KeyTaskId]
               ELSE IF nested /\ HasKey(resp, KeyUrl)
                              /\ Contains(TaskSeparator, resp.d[KeyUrl].s)
                   THEN /\ task_id.value.kind = "string"
                        /\ TextAfterTask(resp.d[KeyUrl].s, task_id.value.s)
               ELSE IF HasKey(r, KeyTaskId)
                   THEN task_id.value = r.d[KeyTaskId]
               ELSE IF HasKey(r, KeyExecutionId)
                   THEN task_id.value = r.d[KeyExecutionId]
               ELSE task_id.value = JNull

\* C12 witness: the `response` object holds a url without "/task/" and no
\* taskId, the top level holds both taskId and executionId, and the call
\* returned the top-level taskId.
C12_Witness ==
    /\ task_id # NotExtracted
    /\ HasKey(response, KeyResponse)
    /\ HasKey(response.d[KeyResponse], KeyUrl)
    /\ ~HasKey(response.d[KeyResponse], KeyTaskId)
    /\ response.d[KeyResponse].d[KeyUrl].kind = "string"
    /\ ~Contains(TaskSeparator, response.d[KeyResponse].d[KeyUrl].s)
    /\ HasKey(response, KeyTaskId)
    /\ HasKey(response, KeyExecutionId)
    /\ task_id = Return(response.d[KeyTaskId])

\* C13 (as claimed): for every JSON-shaped response the call returns a task
\* id or None and raises nothing.
C13_ExtractionIsTotal ==
    task_id # NotExtracted => task_id.out = "return"

\* ========================================================================
\* Task tools and execute_and_monitor_task: properties
\* ========================================================================

\* C14: an exception raised by the wrapped operation, by the extraction of
\* the task id or by the wait never leaves execute_and_monitor_task: the
\* call ends by returning the "Error executing <operation_name>: ..." string.
C14_ExceptionsBecomeErrorString ==
    /\ execPc # "raised"
    /\ raisedIn # "(nowhere)" =>
          /\ execPc = "done"
          /\ execResult.head = "Error executing"

\* C14 witness: the operation returned {"response": null}, the extraction
\* raised TypeError and the call returned the error string.
C14_Witness ==
    /\ execPc = "done"
    /\ operationRuns = 1
    /\ raisedIn = "extract"
    /\ task_id = Raise("TypeError")
    /\ execResult = ErrorExecutingMsg("TypeError")

\* The result of the operation holds a task id at one of the four places.
YieldsTaskId(r) ==
    LET extracted == extract_task_id_from_response(r)
    IN  extracted.out = "return" /\ Truthy(extracted.value)

\* C15 (as claimed): once the operation has returned a result (one that is
\* not null or empty), a result without a task id gives the
\* immediate-completion string with the raw result and no task fetch; a task
\* id with auto_wait gives the outcome of polling that task with the
\* caller's max_wait_seconds; a task id without auto_wait gives the task id
\* and no task fetch.
C15_WrapperFollowsTaskId ==
    ( /\ calledTool = "execute_and_monitor_task"
      /\ execPc = "done"
      /\ operationRuns = 1
      /\ raisedIn \notin {"operation", "wait"}
      /\ Truthy(response) )
    => IF ~YieldsTaskId(response)
       THEN /\ execResult = ImmediateMsg(response)
            /\ fetches = 0
       ELSE IF auto_wait
       THEN /\ execResult.head = "initiated successfully. Task ID:"
            /\ execResult.id = extract_task_id_from_response(response).value
            /\ execResult.max = max_wait_seconds
            /\ Outcome(execResult.completion) \in TerminalOutcomes
       ELSE /\ execResult = InitiatedMsg(extract_task_id_from_response(response).value)
            /\ fetches = 0

\* C16: a task tool called while no client is set returns the not-connected
\* error object or string at once; it issues no Transport request and
\* execute_and_monitor_task does not run the operation.
C16_NotConnectedIsReported ==
    /\ [][ (calledTool = NoTool /\ calledTool' # NoTool /\ client = NoClient) =>
              /\ fetches' = fetches
              /\ taskListRequests' = taskListRequests
              /\ operationRuns' = operationRuns
              /\ pc' = "done" \/ execPc' = "done"
              /\ calledTool' = "get_task_by_id" => task_response' = NotConnectedReply
              /\ calledTool' = "get_tasks" => tasks_response' = NotConnectedReply
              /\ calledTool' \in {"check_task_status", "wait_for_task_completion",
                                  "get_recent_failed_tasks"} => result' = NotConnectedMsg
              /\ calledTool' = "execute_and_monitor_task" => execResult' = NotConnectedMsg
          ]_vars
    /\ []( ( \/ result = NotConnectedMsg
             \/ execResult = NotConnectedMsg
             \/ task_response = NotConnectedReply
             \/ tasks_response = NotConnectedReply )
           => /\ fetches = 0
              /\ taskListRequests = 0
              /\ operationRuns = 0
              /\ pc # "raised" /\ execPc # "raised" )

\* C16 witness: execute_and_monitor_task was called before connect and
\* returned the not-connected string without running the operation.
C16_Witness ==
    /\ calledTool = "execute_and_monitor_task"
    /\ execPc = "done"
    /\ execResult = NotConnectedMsg
    /\ operationRuns = 0
    /\ fetches = 0

\* C20: a connected check_task_status call issues exactly one fetch; a reply
\* that is None or has no "response" gives the could-not-retrieve string,
\* any other gives FAILED when isError is true, else COMPLETED when
\* endTime > 0, else IN PROGRESS.
C20_SingleFetchClassified ==
    ( /\ calledTool = "check_task_status"
      /\ pc = "done"
      /\ result # NotConnectedMsg )
    => /\ fetches = 1
       /\ loopFetches = 0
       /\ IF task_response \in {NoneReply, EmptyDictReply, ErrorDictReply}
          THEN result = CouldNotRetrieveMsg
          ELSE LET rec == task_response["response"] IN
               /\ result.head = "Task Status Summary"
               /\ result.status =
                     (IF rec.hasIsError /\ rec.isError THEN "FAILED"
                      ELSE IF rec.hasEndTime /\ rec.endTime > 0 THEN "COMPLETED"
                      ELSE "IN PROGRESS")

\* C20 witness: the fetched record has isError true and endTime > 0, and the
\* summary says FAILED.
C20_Witness ==
    /\ calledTool = "check_task_status"
    /\ pc = "done"
    /\ task_response.hasResponse
    /\ task_response["response"].isError
    /\ task_response["response"].endTime > 0
    /\ result = SummaryMsg("FAILED")

\* ========================================================================
\* CatalystCenterClient.request: properties
\* ========================================================================

\* C17 (as claimed): one call re-authenticates at most once after a 401 and
\* sends the request at most twice; a second 401 ends the call with None;
\* the call ends by returning the JSON body or None.
C17_AtMostOneReauthentication ==
    /\ reauthentications <= 1
    /\ sends <= 2
    /\ requestPc = "done" => returned \in {JsonBody, NoneValue}

\* ========================================================================
\* Classifier: scores and default
\* ========================================================================

\* No override term occurs in the query (compared in lower case).
NoOverrideFires(q) ==
    \A terms \in {AuthenticationTerms, SdaTerms, DevicesTerms, TaskTerms} :
        \A i \in 1 .. Len(terms) : ~Contains(terms[i], lower(q))

\* The keyword scores of the query, in the order of DOMAIN_KEYWORDS.
Scores(q) == domain_scores(lower(q))

\* C18: when no override fires and some domain scores above 0, the domain
\* returned is one no other domain outscores, and every domain that comes
\* before it in DOMAIN_KEYWORDS scores strictly less.
C18_HighestScoreFirstWins ==
    ( /\ domain # NotClassified
      /\ NoOverrideFires(query)
      /\ \E j \in DOMAIN Scores(query) : Scores(query)[j] > 0 )
    => \E i \in DOMAIN Scores(query) :
          /\ DOMAIN_KEYWORDS[i].domain = domain
          /\ \A j \in DOMAIN Scores(query) : Scores(query)[j] <= Scores(query)[i]
          /\ \A j \in DOMAIN Scores(query) : j < i => Scores(query)[j] < Scores(query)[i]

\* C18 witness: two domains share the highest, positive score and the one
\* that comes first in DOMAIN_KEYWORDS was returned.
C18_Witness ==
    /\ domain # NotClassified
    /\ NoOverrideFires(query)
    /\ \E i, j \in DOMAIN Scores(query) :
          /\ i < j
          /\ Scores(query)[i] > 0
          /\ Scores(query)[i] = Scores(query)[j]
          /\ \A k \in DOMAIN Scores(query) : Scores(query)[k] <= Scores(query)[i]
          /\ DOMAIN_KEYWORDS[i].domain = domain

C22_LookupFailureApartFromTaskFailure ==
    pc = "done" =>
        /\ (task # NoTask /\ GetIsError(task)) => Outcome(result) # "LOOKUP_ERROR"
        /\ (fetches > 0 /\ FetchFailed(task_response)) => Outcome(result) # "FAILED"

\* C28: a wait_for_task_completion call made while connected with
\* max_wait_seconds zero or negative issues no task fetch and returns the
\* Timeout string, even when the task has already finished or failed.
C28_NoPatienceNoFetch ==
    ( /\ calledTool = "wait_for_task_completion"
      /\ max_wait_seconds <= 0
      /\ Outcome(result) # "NOT_CONNECTED" )
    => ( /\ fetches = 0
         /\ sleeps = 0
         /\ pc \in {"loop", "done"}
         /\ pc = "done" => (Outcome(result) = "TIMED_OUT" /\ result.wait = 0) )

\* C28 witness: the Timeout string returned, without a fetch, for a task
\* that had ended with an error before the call was made.
C28_Witness ==
    /\ calledTool = "wait_for_task_completion"
    /\ pc = "done"
    /\ max_wait_seconds = 0
    /\ Outcome(result) = "TIMED_OUT"
    /\ fetches = 0
    /\ GetIsError(remote)
    /\ GetEndTime(remote) > 0

\* ceil(a / b) for b > 0; no poll is due when a <= 0.
CeilDiv(a, b) == IF a <= 0 THEN 0 ELSE (a + b - 1) \div b

\* A wait_for_task_completion call with a positive check interval that is
\* past its client check.
PollingCall ==
    /\ calledTool = "wait_for_task_completion"
    /\ pc # "idle"
    /\ check_interval_seconds > 0
    /\ Outcome(result) # "NOT_CONNECTED"

\* C29 (as claimed): with check_interval_seconds > 0 and fetches that take no
\* time, the poll loop issues at most ceil(max_wait_seconds /
\* check_interval_seconds) fetches, every fetch starts at an elapsed time
\* below max_wait_seconds, and the call returns no later than
\* max_wait_seconds + check_interval_seconds after it started.
C29_ReturnsWithinOneInterval ==
    PollingCall =>
        /\ loopFetches <= CeilDiv(max_wait_seconds, check_interval_seconds)
        /\ pc = "fetch" => now - start_wait_time < max_wait_seconds
        /\ pc = "done" =>
              now - start_wait_time <= max_wait_seconds + check_interval_seconds

\* C29 (amended): the bounds on the number of fetches and on their start
\* hold as claimed; the call returns no later than max_wait_seconds +
\* check_interval_seconds after it started when max_wait_seconds >= 0 and
\* every sleep lasted exactly check_interval_seconds (all the time that
\* passed since the start is then sleeps * check_interval_seconds).
C29_BoundedPolls ==
    PollingCall =>
        /\ loopFetches <= CeilDiv(max_wait_seconds, check_interval_seconds)
        /\ pc = "fetch" => now - start_wait_time < max_wait_seconds
        /\ ( /\ pc = "done"
             /\ max_wait_seconds >= 0
             /\ now - start_wait_time = sleeps * check_interval_seconds )
           => now - start_wait_time <= max_wait_seconds + check_interval_seconds

\* C29 witness: a call that polled as often as the bound allows, slept
\* exactly its interval each time, and returned the Timeout string after the
\* deadline and within one interval of it.
C29_Witness ==
    /\ PollingCall
    /\ pc = "done"
    /\ Outcome(result) = "TIMED_OUT"
    /\ max_wait_seconds = 3
    /\ check_interval_seconds = 2
    /\ loopFetches = 2
    /\ now - start_wait_time = sleeps * check_interval_seconds
    /\ now - start_wait_time > max_wait_seconds

\* ========================================================================
\* Classifier: override order, scores and routing of the classified domain
\* ========================================================================

\* Some term of an override group occurs in q, in any letter case.
GroupPresent(terms, q) == \E i \in 1 .. Len(terms) : Mentions(terms[i], q)

\* C24: the override groups are tested in the order authentication,
\* fabric/SDA, device/inventory, task, before any score is used: a classified
\* query that holds terms of one or several groups gets the domain of the
\* first of these groups that is present, never a domain chosen by score.
C24_OverridePriority ==
    domain # NotClassified =>
        LET a == GroupPresent(AuthenticationTerms, query)
            s == GroupPresent(SdaTerms, query)
            d == GroupPresent(DevicesTerms, query)
            t == GroupPresent(TaskTerms, query)
        IN  /\ a => domain = "authentication"
            /\ (~a /\ s) => domain = "sda"
            /\ (~a /\ ~s /\ d) => domain = "devices"
            /\ (~a /\ ~s /\ ~d /\ t) => domain = "task"

\* C24 witness: a query that names a device term before a fabric/SDA term,
\* with no authentication term, classified "sda".
C24_Witness ==
    /\ domain = "sda"
    /\ query = WordInventory \o <<"s","d","a">>
    /\ GroupPresent(SdaTerms, query)
    /\ GroupPresent(DevicesTerms, query)
    /\ ~GroupPresent(AuthenticationTerms, query)

\* word occurs in s with no word character next to it on either side
OccursAsWord(word, s) ==
    \E i \in 1 .. (Len(s) - Len(word) + 1) :
        /\ \A j \in 1 .. Len(word) : s[i + j - 1] = word[j]
        /\ (i = 1 \/ ~IsWordChar(s[i - 1]))
        /\ (i + Len(word) > Len(s) \/ ~IsWordChar(s[i + Len(word)]))

\* The score the claim gives the keyword list kws on the lower-cased query s:
\* 2 for each listed keyword that occurs as a whole word, 1 for each that
\* occurs only inside a longer word.
ClaimedScore(kws, s) ==
    2 * Cardinality({ j \in 1 .. Len(kws) : OccursAsWord(kws[j], s) })
    + Cardinality({ j \in 1 .. Len(kws) :
                      Contains(kws[j], s) /\ ~OccursAsWord(kws[j], s) })

\* C25: the score of every domain is the sum over its keywords of 2 for a
\* keyword that occurs in the lower-cased query as a whole word, 1 for one
\* that occurs only as a bare substring and 0 for one that does not occur;
\* a keyword adds at most 2 however often it occurs.
C25_ScoreIsSumOverKeywords ==
    domain # NotClassified =>
        \A i \in 1 .. Len(DOMAIN_KEYWORDS) :
            Scores(query)[i] = ClaimedScore(DOMAIN_KEYWORDS[i].keywords, lower(query))

\* C25 witness: a classified query in which the keyword "task" occurs twice,
\* both times inside a longer word, and adds 1 to the score of
\* "operational_tasks", which has no other keyword in the query.
C25_Witness ==
    /\ domain # NotClassified
    /\ query = <<"t","a","s","k","t","a","s","k">>
    /\ \E i \in 1 .. Len(DOMAIN_KEYWORDS) :
          /\ DOMAIN_KEYWORDS[i].domain = "operational_tasks"
          /\ Scores(query)[i] = 1

\* C27: for every domain classify_query returns, the route function that
\* intelligent_route picks for it loads a domain name that domain_mapping
\* sends to the same module as the returned domain itself ("sda" through
\* "connectivity", "devices" through "network_inventory", "task" through
\* "operational_tasks"), and the domain is a key of domain_routing, so the
\* default of domain_routing.get is not taken.
C27_RouteKeepsModule ==
    domain # NotClassified =>
        /\ domain \in DOMAIN domain_routing
        /\ RouteFunction(domain) \in DOMAIN RouteTable
        /\ ActualModule(RouteTable[RouteFunction(domain)].domain_name)
              = ActualModule(domain)
        /\ domain = "sda" =>
              RouteTable[RouteFunction(domain)].domain_name = "connectivity"
        /\ domain = "devices" =>
              RouteTable[RouteFunction(domain)].domain_name = "network_inventory"
        /\ domain = "task" =>
              RouteTable[RouteFunction(domain)].domain_name = "operational_tasks"

\* C27 witness: a query classified "task" by its override, a name that no
\* route tool loads directly; it is routed to route_operational_tasks_requests.
C27_Witness ==
    /\ domain = "task"
    /\ Mentions(<<"t","a","s","k">>, query)
    /\ RouteFunction(domain) = "route_operational_tasks_requests"
    /\ \A t \in DOMAIN RouteTable : RouteTable[t].domain_name # domain

\* ========================================================================
\* Authentication group and sessions: properties
\* ========================================================================
HttpSchemes == { <<"h","t","t","p",":","/","/">>, <<"h","t","t","p","s",":","/","/">> }

\* a character a base URL may hold after its scheme: letter, digit, "_",
\* ".", "-" or ":"
UrlChar(c) == IsWordChar(c) \/ c \in {".", "-", ":"}

\* The call of run_tools under observation.
RunToolsCalled ==
    /\ invocations[1].tool = "run_tools"
    /\ Mentions(WordConnect, invocations[1].query)

\* The strings run_tools returns without calling connect.
ParseFailures == {
    "No valid URL found in connection request",
    "Failed to extract connection parameters from query" }

\* The strings run_tools returns after calling connect.
ConnectResults == {
    "Successfully connected to Cisco Catalyst Center",
    "Failed to connect to Cisco Catalyst Center",
    "Connection failed: ..." }

\* What a run_tools call must have done when connect is due with the given
\* arguments, and when it is not due (due = FALSE).
RunToolsDid(due, base_url, username, password) ==
    LET inv == invocations[1] IN
    /\ inv.pc = "awaiting" =>
          /\ due
          /\ inv.out.via = "connect"
          /\ inv.out.base_url = base_url
          /\ inv.out.username = username
          /\ inv.out.password = password
    /\ inv.pc = "done" =>
          /\ inv.out.via = "string"
          /\ (created = 1) = due
          /\ inv.out.text \in (IF due THEN ConnectResults ELSE ParseFailures)

\* C23 (as claimed): for a query containing "connect", run_tools takes the
\* first token that is an http(s) URL as base URL and the two tokens that
\* follow it as username and password and calls connect with them; with no
\* such token, or fewer than two tokens after it, it returns a failure string
\* without calling connect; it always returns a string.
C23_UrlTokenThenTwoTokens ==
    RunToolsCalled =>
        LET ws == split(invocations[1].query)
            IsUrlToken(w) ==
                \E sch \in HttpSchemes : Len(w) > Len(sch) /\ SubSeq(w, 1, Len(sch)) = sch
            UrlTokens == { k \in 1 .. Len(ws) : IsUrlToken(ws[k]) }
            k == IF UrlTokens = {} THEN 0
                 ELSE CHOOSE a \in UrlTokens : \A b \in UrlTokens : a <= b
            due == k > 0 /\ Len(ws) >= k + 2
        IN  RunToolsDid(due,
                        IF due THEN ws[k] ELSE <<>>,
                        IF due THEN ws[k + 1] ELSE <<>>,
                        IF due THEN ws[k + 2] ELSE <<>>)

\* C23 (amended): for a query containing "connect", run_tools takes as base
\* URL the leftmost place of the query where "http://" or "https://" is
\* followed by letters, digits, "_", ".", "-" or ":" together with the whole
\* run of these characters (what else the token holds, before or after, is
\* dropped), and as username and password the two whitespace-delimited tokens
\* that follow the token holding that place, and calls connect with them;
\* with no such place, or fewer than two tokens after that token, it returns
\* a failure string without calling connect; it always returns a string.
C23_FirstUrlThenTwoTokens ==
    RunToolsCalled =>
        LET q == invocations[1].query
            ws == split(q)
            \* a base URL starts at place i and ends at place e
            UrlFromTo(i, e) ==
                \E sch \in HttpSchemes :
                    /\ OccursAt(sch, q, i)
                    /\ e >= i + Len(sch)
                    /\ e <= Len(q)
                    /\ \A j \in (i + Len(sch)) .. e : UrlChar(q[j])
                    /\ (e = Len(q) \/ ~UrlChar(q[e + 1]))
            Places == { i \in 1 .. Len(q) : \E e \in i .. Len(q) : UrlFromTo(i, e) }
            first == IF Places = {} THEN 0
                     ELSE CHOOSE a \in Places : \A b \in Places : a <= b
            end == IF first = 0 THEN 0 ELSE CHOOSE e \in first .. Len(q) : UrlFromTo(first, e)
            \* the number of the token that holds place first: tokens begun so far
            k == Cardinality({ j \in 1 .. first :
                                 ~IsSpace(q[j]) /\ (j = 1 \/ IsSpace(q[j - 1])) })
            due == first > 0 /\ Len(ws) >= k + 2
        IN  RunToolsDid(due,
                        IF due THEN SubSeq(q, first, end) ELSE <<>>,
                        IF due THEN ws[k + 1] ELSE <<>>,
                        IF due THEN ws[k + 2] ELSE <<>>)

\* C23 witness: run_tools has called connect for a query whose URL token
\* carries a path; the base URL is the token without the path, the two
\* tokens after it are the credentials.
C23_Witness ==
    /\ RunToolsCalled
    /\ invocations[1].pc = "awaiting"
    /\ invocations[1].query =
          <<"c","o","n","n","e","c","t"," ","h","t","t","p",":","/","/","h","2","/","x",
            " ","u"," ","p">>
    /\ invocations[1].out.via = "connect"
    /\ invocations[1].out.base_url = <<"h","t","t","p",":","/","/","h","2">>
    /\ invocations[1].out.username = <<"u">>
    /\ invocations[1].out.password = <<"p">>

\* ---- C30: connect and the active client ---------------------------------
\* The string connect returns after a successful authentication (line 35).
ConnectedMsg == "Successfully connected to Cisco Catalyst Center"

\* Invocation i is a call that reached connect and whose token POST ends in
\* this step.
ConnectEnds(i) ==
    /\ invocations[i].pc = "awaiting"
    /\ invocations[i].tool # "get_task_by_id"
    /\ invocations'[i].pc = "done"

RouterCallActs(i) ==
    /\ invocations'[i] # invocations[i]
    /\ invocations'[i].tool \in DOMAIN SessionRouteTools

\* The cache after the step holds every entry it held before, unchanged.
CacheOnlyGrows ==
    \A d \in DOMAIN domain_agents :
        d \in DOMAIN domain_agents' /\ domain_agents'[d] = domain_agents[d]

\* C21 (as claimed): a router call changes nothing but the domain_agents
\* cache, to which it only adds entries; the active client of client_manager
\* is the same before and after every step of a router call, for every query.
C21_RouterCallKeepsActiveClient ==
    [][ \A i \in 1 .. MaxInvocations :
            RouterCallActs(i) => (CacheOnlyGrows /\ client' = client) ]_vars

\* C21 (amended): a router call changes the domain_agents cache only by adding
\* entries, and it changes the active client of client_manager in one case
\* only: the call was dispatched to the authentication group, its query
\* contains "connect", and the authentication that connect performed
\* succeeded; the client connect constructed is then the active one.
C21_RouterCallChangesClientOnlyByConnect ==
    [][ \A i \in 1 .. MaxInvocations :
            RouterCallActs(i) =>
                /\ CacheOnlyGrows
                /\ client' # client =>
                      /\ invocations[i].domain_name = "authentication"
                      /\ Mentions(WordConnect, invocations[i].query)
                      /\ invocations'[i].out = [via |-> "string", text |-> ConnectedMsg]
                      /\ client' = invocations[i].local
                /\ invocations'[i].out = [via |-> "string", text |-> ConnectedMsg]
                      => client' = invocations[i].local ]_vars

\* C21 witness: intelligent_route was called with a connect command while no
\* client was active, and has returned connect's success string: the client
\* that call constructed is now the active client.
C21_Witness ==
    \E i \in 1 .. MaxInvocations :
        /\ invocations[i].tool = "intelligent_route"
        /\ invocations[i].pc = "done"
        /\ invocations[i].seen = NoClient
        /\ invocations[i].out = [via |-> "string", text |-> ConnectedMsg]
        /\ invocations[i].local # NoClient
        /\ client = invocations[i].local
        /\ "authentication" \in DOMAIN domain_agents

\* ---- C26: the cache under concurrent router calls -------------------------
\* C26: under every interleaving of router calls, each entry of domain_agents
\* maps a domain name to the handle of the module loaded for that name, never
\* to None, and an entry once present is never removed nor replaced; calls
\* that overlap do not load a group more often than calls were made for it.
C26_CacheNeverCorrupted ==
    /\ [](\A d \in DOMAIN domain_agents :
            /\ domain_agents[d] # NoHandle
            /\ domain_agents[d] = ActualModule(d)
            /\ loads[d] >= 1)
    /\ [](\A d \in DOMAIN loads :
            loads[d] <= Cardinality({ i \in 1 .. MaxInvocations :
                                        invocations[i].domain_name = d }))
    /\ [][CacheOnlyGrows]_vars

\* C26 witness: two router calls for the authentication group are suspended
\* in connect at the same time, a third call loaded another group meanwhile;
\* authentication was loaded once and both entries are in the cache.
C26_Witness ==
    /\ \E i, j \in 1 .. MaxInvocations :
          /\ i # j
          /\ invocations[i].pc = "awaiting" /\ invocations[j].pc = "awaiting"
          /\ invocations[i].domain_name = "authentication"
          /\ invocations[j].domain_name = "authentication"
    /\ loads["authentication"] = 1
    /\ Cardinality(DOMAIN domain_agents) = 2

====
